---- MODULE Spec2Model ----
(***************************************************************************)
(* A model of rust-darknet-config (src/src/config.rs): the conversions     *)
(* between the raw records of a Darknet configuration file and the         *)
(* canonical configuration types, the field codecs and the assembly of a   *)
(* DarknetConfig from its items.                                           *)
(*                                                                         *)
(* The program is a set of pure conversions.  A behaviour of the model is  *)
(* one call: Init draws the operation and its argument, the actions apply  *)
(* the conversions of the source one after the other.                      *)
(***************************************************************************)
EXTENDS Integers, Sequences, FiniteSets, TLC

VARIABLES
    pc,               \* the last conversion made: "ready", "forward", "back", "again"; "stopped" after a failure
    op,               \* the operation that is called
    input,            \* its argument
    output,           \* the result of the conversion
    back,             \* the result of the reverse conversion applied to output
    again,            \* the result of the conversion applied to back
    overflow_checks   \* build profile: TRUE = overflow checks on (debug), FALSE = wrapping (release)

vars == <<pc, op, input, output, back, again, overflow_checks>>

----------------------------------------------------------------------------
(* Bounds of the model *)

\* width of usize / isize in bits (64 in the program)
Bits == 4
\* longest list of steps / scales / layer indexes drawn as an input
MaxLen == 2
\* longest sequence of items handed to the assembler
MaxItems == 3
\* largest kernel size drawn for a convolutional record
MaxSize == 3
\* most layers of a DarknetConfig that is written to text
MaxLayers == 2
\* most tokens of a list text that is decoded
MaxTokens == 4
\* width of usize in bits where shapes and weight counts are computed: wide
\* enough for the extents and counts of a real layer (64 in the program)
ShapeBits == 10

----------------------------------------------------------------------------
(* Option, Result and machine integers *)

None == [some |-> FALSE]
Some(x) == [some |-> TRUE, v |-> x]
IsSome(o) == o.some
IsNone(o) == ~o.some
UnwrapOr(o, d) == IF o.some THEN o.v ELSE d

Ok(x) == [ok |-> TRUE, val |-> x]
Err(m) == [ok |-> FALSE, panic |-> FALSE, err |-> m]
Panic(m) == [ok |-> FALSE, panic |-> TRUE, err |-> m]
Unset == [unset |-> TRUE]

Pow2(n) == 2 ^ n
UsizeMax == Pow2(Bits) - 1
IsizeMin == -Pow2(Bits - 1)
IsizeMax == Pow2(Bits - 1) - 1
Usize == 0 .. UsizeMax
Isize == IsizeMin .. IsizeMax

\* `x as usize` of a signed value, and the wrapped result of unsigned arithmetic
AsUsize(x) == x % Pow2(Bits)
\* `x as isize` of an unsigned value
AsIsize(x) == IF (x % Pow2(Bits)) > IsizeMax THEN (x % Pow2(Bits)) - Pow2(Bits) ELSE x % Pow2(Bits)

\* -x on isize: overflows for isize::MIN; panics with overflow checks, wraps without
NegIsize(x, checks) ==
    IF x = IsizeMin
    THEN (IF checks THEN Panic("attempt to negate with overflow") ELSE Ok(IsizeMin))
    ELSE Ok(-x)

----------------------------------------------------------------------------
(* LayerIndex *)

Relative(k) == [kind |-> "Relative", index |-> k]
Absolute(i) == [kind |-> "Absolute", index |-> i]

\* impl From<isize> for LayerIndex, with the negation kept positive (a sign slip)
LayerIndexFromIsizeNoNeg(index, checks) ==
    IF index < 0
    THEN Ok(Relative(AsUsize(index)))
    ELSE Ok(Absolute(AsUsize(index)))

\* impl From<isize> for LayerIndex
LayerIndexFromIsize(index, checks) ==
    IF index < 0
    THEN LET neg == NegIsize(index, checks)
         IN  IF ~neg.ok THEN neg
             ELSE IF AsUsize(neg.val) = 0
                  THEN Panic("unwrap on None")
                  ELSE Ok(Relative(AsUsize(neg.val)))
    ELSE Ok(Absolute(AsUsize(index)))

\* impl From<LayerIndex> for isize
IsizeFromLayerIndex(index, checks) ==
    IF index.kind = "Relative"
    THEN NegIsize(AsIsize(index.index), checks)
    ELSE Ok(AsIsize(index.index))

----------------------------------------------------------------------------
(* Reals.  An R64 is modelled as a whole number of 10^-FracDigits units,  *)
(* so that 1.0 is One and 0.1 is Tenth.                                    *)

\* decimal places kept by the model's reals
FracDigits == 6
One == 10 ^ FracDigits
Tenth == One \div 10

\* vec![R64::new(1.0); n]
Ones(n) == [i \in 1 .. n |-> One]

----------------------------------------------------------------------------
(* Text.  The value of a field is a sequence of characters; the name of an *)
(* enum variant is kept as one symbol, since no codec looks inside it.     *)

DigitChars == <<"0", "1", "2", "3", "4", "5", "6", "7", "8", "9">>
IsDigit(c) == \E d \in 1 .. 10 : DigitChars[d] = c
DigitVal(c) == (CHOOSE d \in 1 .. 10 : DigitChars[d] = c) - 1
IsWhitespace(c) == c \in {" ", "\t"}

\* n.to_string() of a natural number
RECURSIVE NatToString(_)
NatToString(n) ==
    IF n < 10 THEN <<DigitChars[n + 1]>>
    ELSE NatToString(n \div 10) \o <<DigitChars[(n % 10) + 1]>>

\* the number a sequence of digits denotes
RECURSIVE DigitsValue(_)
DigitsValue(t) ==
    IF t = <<>> THEN 0
    ELSE DigitsValue(SubSeq(t, 1, Len(t) - 1)) * 10 + DigitVal(t[Len(t)])

AllDigits(t) == \A i \in 1 .. Len(t) : IsDigit(t[i])

\* i.to_string() of a signed number
IsizeToString(i) == IF i < 0 THEN <<"-">> \o NatToString(-i) ELSE NatToString(i)

\* str::parse::<usize>()
ParseUsize(t) ==
    LET body == IF t # <<>> /\ t[1] = "+" THEN Tail(t) ELSE t
    IN  IF t = <<>> THEN Err("cannot parse integer from empty string")
        ELSE IF body = <<>> \/ ~AllDigits(body) THEN Err("invalid digit found in string")
        ELSE IF DigitsValue(body) > UsizeMax
             THEN Err("number too large to fit in target type")
        ELSE Ok(DigitsValue(body))

\* str::parse::<isize>()
ParseIsize(t) ==
    LET signed == t # <<>> /\ t[1] \in {"+", "-"}
        body == IF signed THEN Tail(t) ELSE t
        value == IF t # <<>> /\ t[1] = "-" THEN -DigitsValue(body) ELSE DigitsValue(body)
    IN  IF t = <<>> THEN Err("cannot parse integer from empty string")
        ELSE IF body = <<>> \/ ~AllDigits(body) THEN Err("invalid digit found in string")
        ELSE IF value > IsizeMax THEN Err("number too large to fit in target type")
        ELSE IF value < IsizeMin THEN Err("number too small to fit in target type")
        ELSE Ok(value)

\* the digits of n, with leading zeros, width long
RECURSIVE PadDigits(_, _)
PadDigits(n, width) ==
    IF width = 0 THEN <<>>
    ELSE PadDigits(n \div 10, width - 1) \o <<DigitChars[(n % 10) + 1]>>

RECURSIVE StripTrailingZeros(_)
StripTrailingZeros(t) ==
    IF t # <<>> /\ t[Len(t)] = "0" THEN StripTrailingZeros(SubSeq(t, 1, Len(t) - 1)) ELSE t

\* Display of an R64: the whole part, then the decimals that are not trailing zeros
R64ToString(x) ==
    LET abs == IF x < 0 THEN -x ELSE x
        frac == StripTrailingZeros(PadDigits(abs % One, FracDigits))
    IN  (IF x < 0 THEN <<"-">> ELSE <<>>)
            \o NatToString(abs \div One)
            \o (IF frac = <<>> THEN <<>> ELSE <<".">> \o frac)

\* the index of the first occurrence of c in t, 0 when there is none
RECURSIVE IndexOf(_, _, _)
IndexOf(t, c, i) ==
    IF i > Len(t) THEN 0 ELSE IF t[i] = c THEN i ELSE IndexOf(t, c, i + 1)

\* the decimals of a number text as units: cut or padded to FracDigits places
FracUnits(t) ==
    DigitsValue(SubSeq(t \o PadDigits(0, FracDigits), 1, FracDigits))

\* str::parse::<f64>() followed by R64::try_new, for decimal numerals; the
\* value is held to the model's precision
ParseR64(t) ==
    LET signed == t # <<>> /\ t[1] \in {"+", "-"}
        body == IF signed THEN Tail(t) ELSE t
        dot == IndexOf(body, ".", 1)
        whole == IF dot = 0 THEN body ELSE SubSeq(body, 1, dot - 1)
        frac == IF dot = 0 THEN <<>> ELSE SubSeq(body, dot + 1, Len(body))
        value == DigitsValue(whole) * One + FracUnits(frac)
    IN  IF whole \o frac = <<>> \/ ~AllDigits(whole) \/ ~AllDigits(frac)
        THEN Err("invalid float literal")
        ELSE Ok(IF t[1] = "-" THEN -value ELSE value)

\* text.chars().filter(|c| !c.is_whitespace()).collect()
RECURSIVE StripWhitespace(_)
StripWhitespace(t) ==
    IF t = <<>> THEN <<>>
    ELSE IF IsWhitespace(t[1]) THEN StripWhitespace(Tail(t))
    ELSE <<t[1]>> \o StripWhitespace(Tail(t))

\* str::split(","): the pieces between the commas; one empty piece for the empty text
RECURSIVE SplitComma(_)
SplitComma(t) ==
    LET comma == IndexOf(t, ",", 1)
    IN  IF comma = 0 THEN <<t>>
        ELSE <<SubSeq(t, 1, comma - 1)>> \o SplitComma(SubSeq(t, comma + 1, Len(t)))

\* Itertools::join(","): nothing for no piece
RECURSIVE JoinComma(_)
JoinComma(pieces) ==
    IF pieces = <<>> THEN <<>>
    ELSE IF Len(pieces) = 1 THEN pieces[1]
    ELSE pieces[1] \o <<",">> \o JoinComma(Tail(pieces))

\* try_collect(): the values of the results, or the first result that is no value
FirstFailure(results) ==
    results[CHOOSE i \in 1 .. Len(results) :
                ~results[i].ok /\ \A j \in 1 .. i - 1 : results[j].ok]
TryCollect(results) ==
    IF \A i \in 1 .. Len(results) : results[i].ok
    THEN Ok([i \in 1 .. Len(results) |-> results[i].val])
    ELSE FirstFailure(results)

----------------------------------------------------------------------------
(* mod defaults *)

DefaultGroups == 1
DefaultStride == 1
DefaultDilation == 1
DefaultMaxBatches == 0
DefaultBatch == 1
DefaultSubdivisions == 1
DefaultMomentum == 9 * Tenth
DefaultB1 == 9 * Tenth
DefaultB2 == One - One \div 1000
DefaultEps == One \div 1000000
DefaultPolicy == "Constant"
DefaultStep == 1
DefaultScale == One
DefaultGamma == One
DefaultWeightsType == "None"
DefaultMaxPoolStride == 1
DefaultMaxPoolDepth == 0
DefaultOutChannels == 1
DefaultRouteGroups == 1
DefaultRouteGroupId == 0
DefaultClasses == 20
DefaultNum == 1
DefaultUpSampleStride == 2
DefaultConnectedOutput == 1
DefaultConnectedActivation == "Logistic"

----------------------------------------------------------------------------
(* Shape and Policy *)

Hwc(h, w, c) == [kind |-> "Hwc", hwc |-> <<h, w, c>>]
Flat(n) == [kind |-> "Flat", flat |-> n]

PolicyKinds == {"Random", "Poly", "Constant", "Step", "Exp", "Sigmoid", "Steps", "Sgdr"}

PolicyPlain(kind) == [kind |-> kind]
PolicyStep(step, scale) == [kind |-> "Step", step |-> step, scale |-> scale]
PolicyExp(gamma) == [kind |-> "Exp", gamma |-> gamma]
PolicySigmoid(gamma, step) == [kind |-> "Sigmoid", gamma |-> gamma, step |-> step]
PolicySteps(steps, scales, seq_scales) ==
    [kind |-> "Steps", steps |-> steps, scales |-> scales, seq_scales |-> seq_scales]
PolicySgdrCustom(steps, scales, seq_scales) ==
    [kind |-> "SgdrCustom", steps |-> steps, scales |-> scales, seq_scales |-> seq_scales]

\* a * b on usize: panics on overflow with overflow checks, wraps without
MulUsize(a, b, checks) ==
    IF a * b > UsizeMax
    THEN (IF checks THEN Panic("attempt to multiply with overflow") ELSE Ok(AsUsize(a * b)))
    ELSE Ok(a * b)

----------------------------------------------------------------------------
(* NetConfig.  The modelled fields are the ones the conversion computes    *)
(* with, and batch, flip and momentum, which stand for the fields that     *)
(* both conversions move unchanged.                                        *)

\* the input_size match of TryFrom<RawNetConfig>, accepting a partial h/w/c triple
NetInputSizeLax(raw) ==
    IF IsSome(raw.inputs) /\ IsNone(raw.height) /\ IsNone(raw.width) /\ IsNone(raw.channels)
    THEN Ok(Flat(raw.inputs.v))
    ELSE IF IsNone(raw.inputs) /\ IsSome(raw.height)
         THEN Ok(Hwc(raw.height.v, UnwrapOr(raw.width, 1), UnwrapOr(raw.channels, 1)))
         ELSE Err("either inputs or height/width/channels must be specified")

\* the input_size match of TryFrom<RawNetConfig>
NetInputSize(raw) ==
    IF IsSome(raw.inputs) /\ IsNone(raw.height) /\ IsNone(raw.width) /\ IsNone(raw.channels)
    THEN Ok(Flat(raw.inputs.v))
    ELSE IF IsNone(raw.inputs) /\ IsSome(raw.height) /\ IsSome(raw.width) /\ IsSome(raw.channels)
         THEN Ok(Hwc(raw.height.v, raw.width.v, raw.channels.v))
         ELSE Err("either inputs or height/width/channels must be specified")

\* the PolicyKind::Steps arm, with seq_scales defaulted to an empty list
NetPolicyStepsNoOnes(raw) ==
    IF IsNone(raw.steps) THEN Err("steps must be specified for step policy")
    ELSE IF IsNone(raw.scales) THEN Err("scales must be specified for step policy")
    ELSE IF Len(raw.steps.v) # Len(raw.scales.v)
         THEN Err("the length of steps and scales must be equal")
    ELSE LET seq_scales == UnwrapOr(raw.seq_scales, <<>>)
         IN  Ok(PolicySteps(raw.steps.v, raw.scales.v, seq_scales))

\* the PolicyKind::Steps arm, without the length check of seq_scales
NetPolicyStepsNoSeqCheck(raw) ==
    IF IsNone(raw.steps) THEN Err("steps must be specified for step policy")
    ELSE IF IsNone(raw.scales) THEN Err("scales must be specified for step policy")
    ELSE IF Len(raw.steps.v) # Len(raw.scales.v)
         THEN Err("the length of steps and scales must be equal")
    ELSE Ok(PolicySteps(raw.steps.v, raw.scales.v,
                        UnwrapOr(raw.seq_scales, Ones(Len(raw.steps.v)))))

\* the PolicyKind::Steps arm of TryFrom<RawNetConfig>
NetPolicySteps(raw) ==
    IF IsNone(raw.steps) THEN Err("steps must be specified for step policy")
    ELSE IF IsNone(raw.scales) THEN Err("scales must be specified for step policy")
    ELSE IF Len(raw.steps.v) # Len(raw.scales.v)
         THEN Err("the length of steps and scales must be equal")
    ELSE LET seq_scales == UnwrapOr(raw.seq_scales, Ones(Len(raw.steps.v)))
         IN  IF Len(raw.steps.v) # Len(seq_scales)
             THEN Err("the length of steps and seq_scales must be equal")
             ELSE Ok(PolicySteps(raw.steps.v, raw.scales.v, seq_scales))

\* the PolicyKind::Sgdr arm, with a missing scales left empty
NetPolicySgdrNoOnes(raw) ==
    IF IsSome(raw.steps)
    THEN LET scales == UnwrapOr(raw.scales, <<>>)
             seq_scales == UnwrapOr(raw.seq_scales, Ones(Len(raw.steps.v)))
         IN  IF Len(raw.steps.v) # Len(seq_scales)
             THEN Err("the length of steps and seq_scales must be equal")
             ELSE Ok(PolicySgdrCustom(raw.steps.v, scales, seq_scales))
    ELSE IF IsNone(raw.scales) /\ IsNone(raw.seq_scales)
         THEN Ok(PolicyPlain("Sgdr"))
         ELSE Err("either none or at least steps must be specifeid")

\* the PolicyKind::Sgdr arm, with arrays given without steps left unread
NetPolicySgdrLax(raw) ==
    IF IsSome(raw.steps)
    THEN LET scales == UnwrapOr(raw.scales, Ones(Len(raw.steps.v)))
             seq_scales == UnwrapOr(raw.seq_scales, Ones(Len(raw.steps.v)))
         IN  IF Len(raw.steps.v) # Len(scales)
             THEN Err("the length of steps and scales must be equal")
             ELSE IF Len(raw.steps.v) # Len(seq_scales)
                  THEN Err("the length of steps and seq_scales must be equal")
                  ELSE Ok(PolicySgdrCustom(raw.steps.v, scales, seq_scales))
    ELSE Ok(PolicyPlain("Sgdr"))

\* the PolicyKind::Sgdr arm of TryFrom<RawNetConfig>
NetPolicySgdr(raw) ==
    IF IsSome(raw.steps)
    THEN LET scales == UnwrapOr(raw.scales, Ones(Len(raw.steps.v)))
             seq_scales == UnwrapOr(raw.seq_scales, Ones(Len(raw.steps.v)))
         IN  IF Len(raw.steps.v) # Len(scales)
             THEN Err("the length of steps and scales must be equal")
             ELSE IF Len(raw.steps.v) # Len(seq_scales)
                  THEN Err("the length of steps and seq_scales must be equal")
                  ELSE Ok(PolicySgdrCustom(raw.steps.v, scales, seq_scales))
    ELSE IF IsNone(raw.scales) /\ IsNone(raw.seq_scales)
         THEN Ok(PolicyPlain("Sgdr"))
         ELSE Err("either none or at least steps must be specifeid")

\* the policy match, with the gamma of Exp read from scale
NetPolicyExpOfScale(raw) ==
    CASE raw.policy \in {"Random", "Poly", "Constant"} -> Ok(PolicyPlain(raw.policy))
      [] raw.policy = "Step" -> Ok(PolicyStep(raw.step, raw.scale))
      [] raw.policy = "Exp" -> Ok(PolicyExp(raw.scale))
      [] raw.policy = "Sigmoid" -> Ok(PolicySigmoid(raw.gamma, raw.step))
      [] raw.policy = "Steps" -> NetPolicySteps(raw)
      [] raw.policy = "Sgdr" -> NetPolicySgdr(raw)

\* the policy match of TryFrom<RawNetConfig>
NetPolicy(raw) ==
    CASE raw.policy \in {"Random", "Poly", "Constant"} -> Ok(PolicyPlain(raw.policy))
      [] raw.policy = "Step" -> Ok(PolicyStep(raw.step, raw.scale))
      [] raw.policy = "Exp" -> Ok(PolicyExp(raw.gamma))
      [] raw.policy = "Sigmoid" -> Ok(PolicySigmoid(raw.gamma, raw.step))
      [] raw.policy = "Steps" -> NetPolicySteps(raw)
      [] raw.policy = "Sgdr" -> NetPolicySgdr(raw)

\* impl TryFrom<RawNetConfig> for NetConfig
NetConfigTryFrom(raw, checks) ==
    LET sgdr_cycle == UnwrapOr(raw.sgdr_cycle, raw.max_batches)
        sequential_subdivisions == UnwrapOr(raw.sequential_subdivisions, raw.subdivisions)
        adam == IF raw.adam THEN Some([b1 |-> raw.b1, b2 |-> raw.b2, eps |-> raw.eps]) ELSE None
        max_crop == IF IsSome(raw.max_crop) THEN Ok(raw.max_crop.v)
                    ELSE MulUsize(UnwrapOr(raw.width, 0), 2, checks)
        min_crop == UnwrapOr(raw.min_crop, UnwrapOr(raw.width, 0))
        input_size == NetInputSize(raw)
        policy == NetPolicy(raw)
    IN  IF ~max_crop.ok THEN max_crop
        ELSE IF ~input_size.ok THEN input_size
        ELSE IF ~policy.ok THEN policy
        ELSE Ok([max_batches |-> raw.max_batches,
                 batch |-> raw.batch,
                 sgdr_cycle |-> sgdr_cycle,
                 momentum |-> raw.momentum,
                 subdivisions |-> raw.subdivisions,
                 sequential_subdivisions |-> sequential_subdivisions,
                 adam |-> adam,
                 input_size |-> input_size.val,
                 max_crop |-> max_crop.val,
                 min_crop |-> min_crop,
                 flip |-> raw.flip,
                 policy |-> policy.val])

\* the policy match of From<NetConfig> for RawNetConfig: the sub-fields of the record
RawPolicyFields(policy) ==
    LET base == [policy |-> policy.kind, step |-> DefaultStep, scale |-> DefaultScale,
                 steps |-> None, scales |-> None, seq_scales |-> None,
                 gamma |-> DefaultGamma]
    IN  CASE policy.kind \in {"Random", "Poly", "Constant", "Sgdr"} -> base
          [] policy.kind = "Step" ->
                [base EXCEPT !.step = policy.step, !.scale = policy.scale]
          [] policy.kind = "Exp" -> [base EXCEPT !.gamma = policy.gamma]
          [] policy.kind = "Sigmoid" ->
                [base EXCEPT !.step = policy.step, !.gamma = policy.gamma]
          [] policy.kind = "Steps" ->
                [base EXCEPT !.steps = Some(policy.steps), !.scales = Some(policy.scales),
                             !.seq_scales = Some(policy.seq_scales)]
          [] policy.kind = "SgdrCustom" ->
                [base EXCEPT !.policy = "Sgdr",
                             !.steps = Some(policy.steps), !.scales = Some(policy.scales),
                             !.seq_scales = Some(policy.seq_scales)]

\* NonZeroUsize::new(n).unwrap()
NonZeroUnwrap(n) == IF n = 0 THEN Panic("unwrap on None") ELSE Ok(n)

\* impl From<NetConfig> for RawNetConfig
RawNetConfigFrom(net) ==
    LET shape == net.input_size
        dims == IF shape.kind = "Hwc" THEN shape.hwc ELSE <<shape.flat>>
        pol == RawPolicyFields(net.policy)
    IN  IF \E i \in 1 .. Len(dims) : dims[i] = 0
        THEN NonZeroUnwrap(0)
        ELSE Ok([max_batches |-> net.max_batches,
                 batch |-> net.batch,
                 sgdr_cycle |-> Some(net.sgdr_cycle),
                 momentum |-> net.momentum,
                 subdivisions |-> net.subdivisions,
                 sequential_subdivisions |-> Some(net.sequential_subdivisions),
                 adam |-> IsSome(net.adam),
                 b1 |-> IF IsSome(net.adam) THEN net.adam.v.b1 ELSE DefaultB1,
                 b2 |-> IF IsSome(net.adam) THEN net.adam.v.b2 ELSE DefaultB2,
                 eps |-> IF IsSome(net.adam) THEN net.adam.v.eps ELSE DefaultEps,
                 width |-> IF shape.kind = "Hwc" THEN Some(shape.hwc[2]) ELSE None,
                 height |-> IF shape.kind = "Hwc" THEN Some(shape.hwc[1]) ELSE None,
                 channels |-> IF shape.kind = "Hwc" THEN Some(shape.hwc[3]) ELSE None,
                 inputs |-> IF shape.kind = "Flat" THEN Some(shape.flat) ELSE None,
                 max_crop |-> Some(net.max_crop),
                 min_crop |-> Some(net.min_crop),
                 flip |-> net.flip,
                 policy |-> pol.policy,
                 step |-> pol.step,
                 scale |-> pol.scale,
                 steps |-> pol.steps,
                 scales |-> pol.scales,
                 seq_scales |-> pol.seq_scales,
                 gamma |-> pol.gamma])

----------------------------------------------------------------------------
(* ConvolutionalConfig.  Modelled: the fields the conversion computes     *)
(* with, and activation, batch_normalize and share_index, which stand for  *)
(* the fields both conversions move unchanged.                             *)

Deforms == {"None", "Sway", "Rotate", "Stretch", "StretchSway"}

\* the deform match of TryFrom<RawConvolutionalConfig>, the first set flag winning
ConvDeformFirstFlag(raw) ==
    CASE raw.sway -> Ok("Sway")
      [] ~raw.sway /\ raw.rotate -> Ok("Rotate")
      [] ~raw.sway /\ ~raw.rotate /\ raw.stretch -> Ok("Stretch")
      [] ~raw.sway /\ ~raw.rotate /\ ~raw.stretch /\ raw.stretch_sway -> Ok("StretchSway")
      [] OTHER -> Ok("None")

\* the deform match of TryFrom<RawConvolutionalConfig>
ConvDeform(raw) ==
    LET flags == <<raw.sway, raw.rotate, raw.stretch, raw.stretch_sway>>
    IN  CASE flags = <<FALSE, FALSE, FALSE, FALSE>> -> Ok("None")
          [] flags = <<TRUE, FALSE, FALSE, FALSE>> -> Ok("Sway")
          [] flags = <<FALSE, TRUE, FALSE, FALSE>> -> Ok("Rotate")
          [] flags = <<FALSE, FALSE, TRUE, FALSE>> -> Ok("Stretch")
          [] flags = <<FALSE, FALSE, FALSE, TRUE>> -> Ok("StretchSway")
          [] OTHER -> Err("at most one of sway, rotate, stretch, stretch_sway can be set")

\* the padding match, with an explicit padding taken before the pad flag
ConvPaddingExplicitFirst(raw) ==
    IF raw.padding.some THEN raw.padding.v
    ELSE IF raw.pad THEN raw.size \div 2 ELSE 0

\* the padding match of TryFrom<RawConvolutionalConfig>
ConvPadding(raw) ==
    IF raw.pad THEN raw.size \div 2 ELSE UnwrapOr(raw.padding, 0)

\* the dilation check, left out
ConvDilationOkSkipped(raw) == TRUE

\* ensure!(size != 1 || dilation == 1)
ConvDilationOk(raw) == raw.size # 1 \/ raw.dilation = 1

\* the xnor check, left out
ConvXnorOkSkipped(raw) == TRUE

\* ensure!(!xnor || groups == 1)
ConvXnorOk(raw) == ~raw.xnor \/ raw.groups = 1

\* match (deform, size == 1): a deform mode with size = 1 is refused
ConvDeformSizeOk(deform, size) == deform = "None" \/ size # 1

\* impl TryFrom<RawConvolutionalConfig> for ConvolutionalConfig
ConvolutionalConfigTryFrom(raw) ==
    LET stride_x == UnwrapOr(raw.stride_x, raw.stride)
        stride_y == UnwrapOr(raw.stride_y, raw.stride)
        padding == ConvPadding(raw)
        deform == ConvDeform(raw)
    IN  IF ~deform.ok THEN deform
        ELSE IF ~ConvDilationOk(raw) THEN Err("dilation must be 1 if size is 1")
        ELSE IF ~ConvDeformSizeOk(deform.val, raw.size)
             THEN Err("sway, rotate, stretch, stretch_sway shoud be used with size >= 3")
        ELSE IF ~ConvXnorOk(raw) THEN Err("groups must be 1 if xnor is enabled")
        ELSE Ok([filters |-> raw.filters,
                 groups |-> raw.groups,
                 size |-> raw.size,
                 stride_x |-> stride_x,
                 stride_y |-> stride_y,
                 dilation |-> raw.dilation,
                 padding |-> padding,
                 activation |-> raw.activation,
                 share_index |-> raw.share_index,
                 batch_normalize |-> raw.batch_normalize,
                 xnor |-> raw.xnor,
                 deform |-> deform.val])

\* the deform match of From<ConvolutionalConfig>, never setting stretch_sway
ConvDeformFlagsNoStretchSway(deform) ==
    [sway |-> deform = "Sway", rotate |-> deform = "Rotate",
     stretch |-> deform \in {"Stretch", "StretchSway"}, stretch_sway |-> FALSE]

\* the deform match of From<ConvolutionalConfig> for RawConvolutionalConfig
ConvDeformFlags(deform) ==
    [sway |-> deform = "Sway", rotate |-> deform = "Rotate",
     stretch |-> deform = "Stretch", stretch_sway |-> deform = "StretchSway"]

\* impl From<ConvolutionalConfig> for RawConvolutionalConfig
RawConvolutionalConfigFrom(conv) ==
    LET flags == ConvDeformFlags(conv.deform)
    IN  [filters |-> conv.filters,
         groups |-> conv.groups,
         size |-> conv.size,
         stride |-> DefaultStride,
         stride_x |-> Some(conv.stride_x),
         stride_y |-> Some(conv.stride_y),
         dilation |-> conv.dilation,
         pad |-> FALSE,
         padding |-> Some(conv.padding),
         activation |-> conv.activation,
         share_index |-> conv.share_index,
         batch_normalize |-> conv.batch_normalize,
         xnor |-> conv.xnor,
         sway |-> flags.sway,
         rotate |-> flags.rotate,
         stretch |-> flags.stretch,
         stretch_sway |-> flags.stretch_sway]

----------------------------------------------------------------------------
(* MaxPoolConfig *)

\* a - b on usize: panics on underflow with overflow checks, wraps without
SubUsize(a, b, checks) ==
    IF a < b
    THEN (IF checks THEN Panic("attempt to subtract with overflow") ELSE Ok(AsUsize(a - b)))
    ELSE Ok(a - b)

\* the maxpool conversion, with an unset size taken from the resolved stride_x
MaxPoolConfigFromSizeOfAxis(raw, checks) ==
    LET stride_x == UnwrapOr(raw.stride_x, raw.stride)
        stride_y == UnwrapOr(raw.stride_y, raw.stride)
        size == UnwrapOr(raw.size, stride_x)
        dflt == SubUsize(size, 1, checks)
    IN  IF ~dflt.ok THEN dflt
        ELSE Ok([stride_x |-> stride_x,
                 stride_y |-> stride_y,
                 size |-> size,
                 padding |-> UnwrapOr(raw.padding, dflt.val),
                 maxpool_depth |-> raw.maxpool_depth,
                 out_channels |-> raw.out_channels])

\* the maxpool conversion, with stride_y resolved as stride_x is
MaxPoolConfigFromOneAxis(raw, checks) ==
    LET stride_x == UnwrapOr(raw.stride_x, raw.stride)
        size == UnwrapOr(raw.size, raw.stride)
        dflt == SubUsize(size, 1, checks)
    IN  IF ~dflt.ok THEN dflt
        ELSE Ok([stride_x |-> stride_x,
                 stride_y |-> stride_x,
                 size |-> size,
                 padding |-> UnwrapOr(raw.padding, dflt.val),
                 maxpool_depth |-> raw.maxpool_depth,
                 out_channels |-> raw.out_channels])

\* impl From<RawMaxPoolConfig> for MaxPoolConfig
MaxPoolConfigFrom(raw, checks) ==
    LET stride_x == UnwrapOr(raw.stride_x, raw.stride)
        stride_y == UnwrapOr(raw.stride_y, raw.stride)
        size == UnwrapOr(raw.size, raw.stride)
        \* unwrap_or evaluates its argument whether or not padding is given
        dflt == SubUsize(size, 1, checks)
    IN  IF ~dflt.ok THEN dflt
        ELSE Ok([stride_x |-> stride_x,
                 stride_y |-> stride_y,
                 size |-> size,
                 padding |-> UnwrapOr(raw.padding, dflt.val),
                 maxpool_depth |-> raw.maxpool_depth,
                 out_channels |-> raw.out_channels])

\* impl From<MaxPoolConfig> for RawMaxPoolConfig
RawMaxPoolConfigFrom(maxpool) ==
    [stride |-> DefaultMaxPoolStride,
     stride_x |-> Some(maxpool.stride_x),
     stride_y |-> Some(maxpool.stride_y),
     size |-> Some(maxpool.size),
     padding |-> Some(maxpool.padding),
     maxpool_depth |-> maxpool.maxpool_depth,
     out_channels |-> maxpool.out_channels]

----------------------------------------------------------------------------
(* Shapes and weight counts.  A shape is <<h, w, c>>; the arithmetic is     *)
(* usize arithmetic of ShapeBits bits; a buffer is modelled by its length. *)

ShapeMax == Pow2(ShapeBits) - 1

\* a + b on usize: panics on overflow with overflow checks, wraps without
AddShape(a, b, checks) ==
    IF a + b > ShapeMax
    THEN (IF checks THEN Panic("attempt to add with overflow") ELSE Ok((a + b) % Pow2(ShapeBits)))
    ELSE Ok(a + b)

\* a - b on usize: panics on underflow with overflow checks, wraps without
SubShape(a, b, checks) ==
    IF a < b
    THEN (IF checks THEN Panic("attempt to subtract with overflow") ELSE Ok((a - b) % Pow2(ShapeBits)))
    ELSE Ok(a - b)

\* a * b on usize: panics on overflow with overflow checks, wraps without
MulShape(a, b, checks) ==
    IF a * b > ShapeMax
    THEN (IF checks THEN Panic("attempt to multiply with overflow") ELSE Ok((a * b) % Pow2(ShapeBits)))
    ELSE Ok(a * b)

\* a / b on usize: truncates; panics on a zero divisor in every build
DivShape(a, b) ==
    IF b = 0 THEN Panic("attempt to divide by zero") ELSE Ok(a \div b)

\* a % b on usize: panics on a zero divisor in every build
RemShape(a, b) ==
    IF b = 0 THEN Panic("attempt to calculate the remainder with a divisor of zero")
    ELSE Ok(a % b)

\* (extent + 2 * padding - size) / stride + 1, with padding counted once
ConvExtentPaddingOnce(extent, padding, size, stride, checks) ==
    LET sum == AddShape(extent, padding, checks)
        diff == IF sum.ok THEN SubShape(sum.val, size, checks) ELSE sum
        quot == IF diff.ok THEN DivShape(diff.val, stride) ELSE diff
    IN  IF quot.ok THEN AddShape(quot.val, 1, checks) ELSE quot

\* (extent + 2 * padding - size) / stride + 1 of ConvolutionalConfig::output_shape
ConvExtent(extent, padding, size, stride, checks) ==
    LET twice == MulShape(2, padding, checks)
        sum == IF twice.ok THEN AddShape(extent, twice.val, checks) ELSE twice
        diff == IF sum.ok THEN SubShape(sum.val, size, checks) ELSE sum
        quot == IF diff.ok THEN DivShape(diff.val, stride) ELSE diff
    IN  IF quot.ok THEN AddShape(quot.val, 1, checks) ELSE quot

\* ConvolutionalConfig::output_shape
ConvOutputShape(conv, shape, checks) ==
    LET out_h == ConvExtent(shape[1], conv.padding, conv.size, conv.stride_y, checks)
        out_w == ConvExtent(shape[2], conv.padding, conv.size, conv.stride_x, checks)
    IN  IF ~out_h.ok THEN out_h
        ELSE IF ~out_w.ok THEN out_w
        ELSE Ok(<<out_h.val, out_w.val, conv.filters>>)

\* (extent + padding - size) / stride + 1, with padding counted twice
MaxPoolExtentPaddingTwice(extent, padding, size, stride, checks) ==
    LET twice == MulShape(2, padding, checks)
        sum == IF twice.ok THEN AddShape(extent, twice.val, checks) ELSE twice
        diff == IF sum.ok THEN SubShape(sum.val, size, checks) ELSE sum
        quot == IF diff.ok THEN DivShape(diff.val, stride) ELSE diff
    IN  IF quot.ok THEN AddShape(quot.val, 1, checks) ELSE quot

\* (extent + padding - size) / stride + 1 of MaxPoolConfig::output_shape
MaxPoolExtent(extent, padding, size, stride, checks) ==
    LET sum == AddShape(extent, padding, checks)
        diff == IF sum.ok THEN SubShape(sum.val, size, checks) ELSE sum
        quot == IF diff.ok THEN DivShape(diff.val, stride) ELSE diff
    IN  IF quot.ok THEN AddShape(quot.val, 1, checks) ELSE quot

\* MaxPoolConfig::output_shape
MaxPoolOutputShape(maxpool, shape, checks) ==
    LET out_h == MaxPoolExtent(shape[1], maxpool.padding, maxpool.size, maxpool.stride_y, checks)
        out_w == MaxPoolExtent(shape[2], maxpool.padding, maxpool.size, maxpool.stride_x, checks)
    IN  IF ~out_h.ok THEN out_h
        ELSE IF ~out_w.ok THEN out_w
        ELSE Ok(<<out_h.val, out_w.val, shape[3]>>)

\* ConvolutionalConfig::num_weights
ConvNumWeights(conv, input_channels, checks) ==
    LET rem == RemShape(input_channels, conv.groups)
        quot == DivShape(input_channels, conv.groups)
        each == IF quot.ok THEN MulShape(quot.val, conv.filters, checks) ELSE quot
        square == MulShape(conv.size, conv.size, checks)
    IN  IF ~rem.ok THEN rem
        ELSE IF rem.val # 0 THEN Err("the input channels is not multiple of groups")
        ELSE IF ~each.ok THEN each
        ELSE IF ~square.ok THEN square
        ELSE MulShape(each.val, square.val, checks)

\* ScaleWeights::new, of the weights module: four blocks of `size` elements
ScaleWeightsNew(size) ==
    [scale |-> size, bias |-> size, mean |-> size, variance |-> size]

\* build_weights, with the scales made whether or not batch_normalize is set
ConvBuildWeightsAlwaysScales(conv, input_shape, checks) ==
    LET count == ConvNumWeights(conv, input_shape[3], checks)
    IN  IF ~count.ok THEN count
        ELSE Ok([weights |-> count.val,
                 biases |-> conv.filters,
                 scales |-> Some(ScaleWeightsNew(conv.filters))])

\* ConvolutionalConfig::build_weights; output_shape is not read
ConvBuildWeights(conv, input_shape, checks) ==
    LET count == ConvNumWeights(conv, input_shape[3], checks)
    IN  IF ~count.ok THEN count
        ELSE Ok([weights |-> count.val,
                 biases |-> conv.filters,
                 scales |-> IF conv.batch_normalize
                            THEN Some(ScaleWeightsNew(conv.filters))
                            ELSE None])

\* the count of ShortcutConfig::num_weights, with the extra scalar left out
ShortcutNumWeightsNoExtra(shortcut, out_channels, checks) ==
    CASE shortcut.weights_type = "None" -> Ok(None)
      [] shortcut.weights_type = "PerFeature" -> Ok(Some(Len(shortcut.from)))
      [] shortcut.weights_type = "PerChannel" ->
            LET count == MulShape(Len(shortcut.from), out_channels, checks)
            IN  IF count.ok THEN Ok(Some(count.val)) ELSE count

\* ShortcutConfig::num_weights: an Option, unless the product panics
ShortcutNumWeights(shortcut, out_channels, checks) ==
    CASE shortcut.weights_type = "None" -> Ok(None)
      [] shortcut.weights_type = "PerFeature" -> Ok(Some(Len(shortcut.from) + 1))
      [] shortcut.weights_type = "PerChannel" ->
            LET count == MulShape(Len(shortcut.from) + 1, out_channels, checks)
            IN  IF count.ok THEN Ok(Some(count.val)) ELSE count

\* ShortcutConfig::build_weights; input_shape is not read
ShortcutBuildWeights(shortcut, output_shape, checks) ==
    LET count == ShortcutNumWeights(shortcut, output_shape[3], checks)
    IN  IF ~count.ok THEN count
        ELSE Ok([weights |-> IF count.val.some THEN Some(count.val.v) ELSE None])

\* ConnectedConfig::build_weights
ConnectedBuildWeights(connected, input_shape, output_shape, checks) ==
    LET count == MulShape(input_shape, output_shape, checks)
    IN  IF ~count.ok THEN count
        ELSE Ok([biases |-> input_shape,
                 weights |-> count.val,
                 scales |-> IF connected.batch_normalize
                            THEN Some(ScaleWeightsNew(output_shape))
                            ELSE None])

----------------------------------------------------------------------------
(* Item, LayerConfig and DarknetConfig *)

LayerKinds == {"Connected", "Convolutional", "Route", "Shortcut", "MaxPool",
               "UpSample", "Yolo", "BatchNorm"}
ItemKinds == LayerKinds \cup {"Net"}

Item(kind, cfg) == [kind |-> kind, cfg |-> cfg]
Layer(kind, cfg) == [kind |-> kind, cfg |-> cfg]

\* the match of TryFrom<Vec<Item>>, with Route and Shortcut exchanged
LayerOfItemSwapped(item) ==
    CASE item.kind = "Route" -> Layer("Shortcut", item.cfg)
      [] item.kind = "Shortcut" -> Layer("Route", item.cfg)
      [] OTHER -> Layer(item.kind, item.cfg)

\* the match of TryFrom<Vec<Item>>: Item::X(layer) => LayerConfig::X(layer)
LayerOfItem(item) ==
    CASE item.kind = "Connected" -> Layer("Connected", item.cfg)
      [] item.kind = "Convolutional" -> Layer("Convolutional", item.cfg)
      [] item.kind = "Route" -> Layer("Route", item.cfg)
      [] item.kind = "Shortcut" -> Layer("Shortcut", item.cfg)
      [] item.kind = "MaxPool" -> Layer("MaxPool", item.cfg)
      [] item.kind = "UpSample" -> Layer("UpSample", item.cfg)
      [] item.kind = "Yolo" -> Layer("Yolo", item.cfg)
      [] item.kind = "BatchNorm" -> Layer("BatchNorm", item.cfg)

\* the match of From<DarknetConfig> for Vec<Item>: LayerConfig::X(layer) => Item::X(layer)
ItemOfLayer(layer) ==
    CASE layer.kind = "Connected" -> Item("Connected", layer.cfg)
      [] layer.kind = "Convolutional" -> Item("Convolutional", layer.cfg)
      [] layer.kind = "Route" -> Item("Route", layer.cfg)
      [] layer.kind = "Shortcut" -> Item("Shortcut", layer.cfg)
      [] layer.kind = "MaxPool" -> Item("MaxPool", layer.cfg)
      [] layer.kind = "UpSample" -> Item("UpSample", layer.cfg)
      [] layer.kind = "Yolo" -> Item("Yolo", layer.cfg)
      [] layer.kind = "BatchNorm" -> Item("BatchNorm", layer.cfg)

\* the index of the first item after the first that is a net item, 0 if none
RECURSIVE FirstLaterNet(_, _)
FirstLaterNet(items, i) ==
    IF i > Len(items) THEN 0
    ELSE IF items[i].kind = "Net" THEN i
    ELSE FirstLaterNet(items, i + 1)

\* TryFrom<Vec<Item>>, accepting net items among the layers
DarknetConfigTryFromNoLaterCheck(items) ==
    IF Len(items) = 0 THEN Err("no items found")
    ELSE IF items[1].kind # "Net" THEN Err("the first item must be 'net'")
    ELSE Ok([net |-> items[1].cfg,
             layers |-> [i \in 1 .. Len(items) - 1 |->
                            Layer(items[i + 1].kind, items[i + 1].cfg)]])

\* TryFrom<Vec<Item>>, collecting the layers in reverse
DarknetConfigTryFromReversed(items) ==
    IF Len(items) = 0 THEN Err("no items found")
    ELSE IF items[1].kind # "Net" THEN Err("the first item must be 'net'")
    ELSE IF FirstLaterNet(items, 2) # 0
         THEN Err("the 'net' layer must appear in the first section")
    ELSE Ok([net |-> items[1].cfg,
             layers |-> [i \in 1 .. Len(items) - 1 |-> LayerOfItem(items[Len(items) + 1 - i])]])

\* impl TryFrom<Vec<Item>> for DarknetConfig
DarknetConfigTryFrom(items) ==
    IF Len(items) = 0 THEN Err("no items found")
    ELSE IF items[1].kind # "Net" THEN Err("the first item must be 'net'")
    ELSE IF FirstLaterNet(items, 2) # 0
         THEN Err("the 'net' layer must appear in the first section")
    ELSE Ok([net |-> items[1].cfg,
             layers |-> [i \in 1 .. Len(items) - 1 |-> LayerOfItem(items[i + 1])]])

\* impl From<DarknetConfig> for Vec<Item>
ItemsFrom(config) ==
    <<Item("Net", config.net)>> \o [i \in 1 .. Len(config.layers) |-> ItemOfLayer(config.layers[i])]

----------------------------------------------------------------------------
(* The field codecs *)

\* serde_zero_one_bool::serialize
ZeroOneBoolSerialize(yes) == IsizeToString(IF yes THEN 1 ELSE 0)

\* serde_zero_one_bool::deserialize
ZeroOneBoolDeserialize(text) ==
    LET n == ParseIsize(text)
    IN  IF ~n.ok THEN n
        ELSE IF n.val = 0 THEN Ok(FALSE)
        ELSE IF n.val = 1 THEN Ok(TRUE)
        ELSE Err("invalid value, expected 0 or 1")

\* impl Serialize for LayerIndex
LayerIndexSerialize(index, checks) ==
    LET n == IsizeFromLayerIndex(index, checks)
    IN  IF ~n.ok THEN n ELSE Ok(IsizeToString(n.val))

\* impl Deserialize for LayerIndex
LayerIndexDeserialize(text, checks) ==
    LET n == ParseIsize(text)
    IN  IF ~n.ok THEN n ELSE LayerIndexFromIsize(n.val, checks)

\* a failed try_collect: a panic goes on, an error is reported with the codec's message
ListFailure(failure, message) == IF failure.panic THEN failure ELSE Err(message)

\* serde_vec_layer_index::serialize
VecLayerIndexSerialize(indexes, checks) ==
    LET texts == TryCollect([i \in 1 .. Len(indexes) |->
                                LayerIndexSerialize(indexes[i], checks)])
    IN  IF ~texts.ok THEN texts ELSE Ok(JoinComma(texts.val))

\* serde_vec_layer_index::deserialize
VecLayerIndexDeserialize(text, checks) ==
    LET tokens == SplitComma(StripWhitespace(text))
        steps == TryCollect([i \in 1 .. Len(tokens) |->
                                LayerIndexDeserialize(tokens[i], checks)])
    IN  IF ~steps.ok THEN ListFailure(steps, "failed to parse steps") ELSE steps

\* serde_vec_usize::serialize
VecUsizeSerialize(steps) ==
    JoinComma([i \in 1 .. Len(steps) |-> NatToString(steps[i])])

\* serde_vec_usize::deserialize
VecUsizeDeserialize(text) ==
    LET tokens == SplitComma(StripWhitespace(text))
        steps == TryCollect([i \in 1 .. Len(tokens) |-> ParseUsize(tokens[i])])
    IN  IF ~steps.ok THEN Err("failed to parse steps") ELSE steps

\* serde_opt_vec_usize::serialize
OptVecUsizeSerialize(steps) ==
    IF IsSome(steps) THEN Some(VecUsizeSerialize(steps.v)) ELSE None

\* serde_opt_vec_usize::deserialize
OptVecUsizeDeserialize(text) ==
    IF IsNone(text) THEN Ok(None)
    ELSE LET steps == VecUsizeDeserialize(text.v)
         IN  IF ~steps.ok THEN steps ELSE Ok(Some(steps.val))

\* serde_opt_vec_r64::serialize
OptVecR64Serialize(scales) ==
    IF IsSome(scales)
    THEN Some(JoinComma([i \in 1 .. Len(scales.v) |-> R64ToString(scales.v[i])]))
    ELSE None

\* serde_opt_vec_r64::deserialize
OptVecR64Deserialize(text) ==
    IF IsNone(text) THEN Ok(None)
    ELSE LET tokens == SplitComma(StripWhitespace(text.v))
             scales == TryCollect([i \in 1 .. Len(tokens) |-> ParseR64(tokens[i])])
         IN  IF ~scales.ok THEN Err("failed to parse steps") ELSE Ok(Some(scales.val))

\* serde_anchors::serialize
AnchorsSerialize(anchors) ==
    IF IsSome(anchors)
    THEN Some(JoinComma([i \in 1 .. 2 * Len(anchors.v) |->
                            NatToString(anchors.v[(i + 1) \div 2][2 - (i % 2)])]))
    ELSE None

\* serde_anchors::deserialize
AnchorsDeserialize(text) ==
    IF IsNone(text) THEN Ok(None)
    ELSE LET tokens == SplitComma(StripWhitespace(text.v))
             values == TryCollect([i \in 1 .. Len(tokens) |-> ParseUsize(tokens[i])])
         IN  IF ~values.ok THEN Err("failed to parse anchors")
             ELSE IF Len(values.val) % 2 # 0 THEN Err("expect even number of values")
             ELSE Ok(Some([i \in 1 .. Len(values.val) \div 2 |->
                              <<values.val[2 * i - 1], values.val[2 * i]>>]))

WeightsTypes == {"None", "PerFeature", "PerChannel"}

\* serde_weights_type::serialize
WeightsTypeSerialize(weights_type) ==
    CASE weights_type = "None" -> <<"none">>
      [] weights_type = "PerFeature" -> <<"per_feature">>
      [] weights_type = "PerChannel" -> <<"per_channel">>

\* serde_weights_type::deserialize, without the alias of per_feature
WeightsTypeDeserializeNoAlias(text) ==
    CASE text = <<"per_feature">> -> Ok("PerFeature")
      [] text = <<"per_channel">> -> Ok("PerChannel")
      [] OTHER -> Err("not a valid weights type")

\* serde_weights_type::deserialize
WeightsTypeDeserialize(text) ==
    CASE text \in {<<"per_feature">>, <<"per_layer">>} -> Ok("PerFeature")
      [] text = <<"per_channel">> -> Ok("PerChannel")
      [] OTHER -> Err("not a valid weights type")

\* the serde names of the variants of Activation (four of them) and PolicyKind
ActivationNames ==
    {<<"Mish", "mish">>, <<"Logistic", "logistic">>, <<"Linear", "linear">>,
     <<"Leaky", "leaky">>}
PolicyKindNames ==
    {<<"Random", "random">>, <<"Poly", "poly">>, <<"Constant", "constant">>,
     <<"Step", "step">>, <<"Exp", "exp">>, <<"Sigmoid", "sigmoid">>,
     <<"Steps", "steps">>, <<"Sgdr", "sgdr">>}
\* the section names of the variants of Item
ItemNames ==
    {<<"Net", "net">>, <<"Connected", "connected">>,
     <<"Convolutional", "convolutional">>, <<"Route", "route">>,
     <<"Shortcut", "shortcut">>, <<"MaxPool", "maxpool">>, <<"UpSample", "upsample">>,
     <<"Yolo", "yolo">>, <<"BatchNorm", "batchnorm">>}

\* derived Serialize of a unit variant: its serde name
VariantSerialize(names, variant) ==
    <<(CHOOSE p \in names : p[1] = variant)[2]>>

\* derived Deserialize of a unit variant
VariantDeserialize(names, text) ==
    IF \E p \in names : text = <<p[2]>>
    THEN Ok((CHOOSE p \in names : text = <<p[2]>>)[1])
    ELSE Err("unknown variant")

\* the field codecs by name: the text (or the optional text) of a value
Codecs == {"vec_usize", "opt_vec_usize", "opt_vec_r64", "vec_layer_index", "anchors",
           "weights_type"}

CodecSerialize(codec, value, checks) ==
    CASE codec = "vec_usize" -> Ok(VecUsizeSerialize(value))
      [] codec = "opt_vec_usize" -> Ok(OptVecUsizeSerialize(value))
      [] codec = "opt_vec_r64" -> Ok(OptVecR64Serialize(value))
      [] codec = "vec_layer_index" -> VecLayerIndexSerialize(value, checks)
      [] codec = "anchors" -> Ok(AnchorsSerialize(value))
      [] codec = "weights_type" -> Ok(WeightsTypeSerialize(value))

CodecDeserialize(codec, text, checks) ==
    CASE codec = "vec_usize" -> VecUsizeDeserialize(text)
      [] codec = "opt_vec_usize" -> OptVecUsizeDeserialize(text)
      [] codec = "opt_vec_r64" -> OptVecR64Deserialize(text)
      [] codec = "vec_layer_index" -> VecLayerIndexDeserialize(text, checks)
      [] codec = "anchors" -> AnchorsDeserialize(text)
      [] codec = "weights_type" -> WeightsTypeDeserialize(text)

----------------------------------------------------------------------------
(* Sections.  A section of the file is its name and its fields, a function *)
(* from the keys that are present to their text.  Writing a record gives   *)
(* every Some field a key and leaves a None field out; reading takes a     *)
(* missing key as None or as the serde default of the field.               *)

Section(name, fields) == [name |-> name, fields |-> fields]

Get(fields, key) == IF key \in DOMAIN fields THEN Some(fields[key]) ELSE None
Present(all) == [k \in {k \in DOMAIN all : all[k].some} |-> all[k].v]
OptMap(o, F(_)) == IF o.some THEN Some(F(o.v)) ELSE None

\* the values of a record of results, or one of the results that is no value
Collect(r) ==
    IF \A k \in DOMAIN r : r[k].ok
    THEN Ok([k \in DOMAIN r |-> r[k].val])
    ELSE r[CHOOSE k \in DOMAIN r : ~r[k].ok]

\* a field with a serde default, a field without one, an Option field
WithDefault(text, Parse(_), default) == IF IsNone(text) THEN Ok(default) ELSE Parse(text.v)
Required(text, Parse(_)) == IF IsNone(text) THEN Err("missing field") ELSE Parse(text.v)
Optional(text, Parse(_)) ==
    IF IsNone(text) THEN Ok(None)
    ELSE LET r == Parse(text.v) IN IF r.ok THEN Ok(Some(r.val)) ELSE r

\* Deserialize of NonZeroUsize
ParseNonZeroUsize(text) ==
    LET n == ParseUsize(text)
    IN  IF n.ok /\ n.val = 0 THEN Err("invalid value: expected a nonzero usize") ELSE n

\* derived Serialize of CommonLayerOptions (clip and dont_load of its fields)
CommonFields(common) ==
    [clip |-> OptMap(common.clip, R64ToString),
     dontload |-> Some(ZeroOneBoolSerialize(common.dont_load))]

\* derived Deserialize of CommonLayerOptions
CommonFromFields(f) ==
    Collect([clip |-> Optional(Get(f, "clip"), ParseR64),
             dont_load |-> WithDefault(Get(f, "dontload"), ZeroOneBoolDeserialize, FALSE)])

\* derived Serialize of RawNetConfig
RawNetFields(raw) ==
    Present(
        [max_batches |-> Some(NatToString(raw.max_batches)),
         batch |-> Some(NatToString(raw.batch)),
         sgdr_cycle |-> OptMap(raw.sgdr_cycle, NatToString),
         momentum |-> Some(R64ToString(raw.momentum)),
         subdivisions |-> Some(NatToString(raw.subdivisions)),
         sequential_subdivisions |-> OptMap(raw.sequential_subdivisions, NatToString),
         adam |-> Some(ZeroOneBoolSerialize(raw.adam)),
         B1 |-> Some(R64ToString(raw.b1)),
         B2 |-> Some(R64ToString(raw.b2)),
         eps |-> Some(R64ToString(raw.eps)),
         width |-> OptMap(raw.width, NatToString),
         height |-> OptMap(raw.height, NatToString),
         channels |-> OptMap(raw.channels, NatToString),
         inputs |-> OptMap(raw.inputs, NatToString),
         max_crop |-> OptMap(raw.max_crop, NatToString),
         min_crop |-> OptMap(raw.min_crop, NatToString),
         flip |-> Some(ZeroOneBoolSerialize(raw.flip)),
         policy |-> Some(VariantSerialize(PolicyKindNames, raw.policy)),
         step |-> Some(NatToString(raw.step)),
         scale |-> Some(R64ToString(raw.scale)),
         steps |-> OptVecUsizeSerialize(raw.steps),
         scales |-> OptVecR64Serialize(raw.scales),
         seq_scales |-> OptVecR64Serialize(raw.seq_scales),
         gamma |-> Some(R64ToString(raw.gamma))])

\* derived Deserialize of RawNetConfig
RawNetFromFields(f) ==
    Collect(
        [max_batches |-> WithDefault(Get(f, "max_batches"), ParseUsize, DefaultMaxBatches),
         batch |-> WithDefault(Get(f, "batch"), ParseUsize, DefaultBatch),
         sgdr_cycle |-> Optional(Get(f, "sgdr_cycle"), ParseUsize),
         momentum |-> WithDefault(Get(f, "momentum"), ParseR64, DefaultMomentum),
         subdivisions |-> WithDefault(Get(f, "subdivisions"), ParseUsize, DefaultSubdivisions),
         sequential_subdivisions |-> Optional(Get(f, "sequential_subdivisions"), ParseUsize),
         adam |-> WithDefault(Get(f, "adam"), ZeroOneBoolDeserialize, FALSE),
         b1 |-> WithDefault(Get(f, "B1"), ParseR64, DefaultB1),
         b2 |-> WithDefault(Get(f, "B2"), ParseR64, DefaultB2),
         eps |-> WithDefault(Get(f, "eps"), ParseR64, DefaultEps),
         width |-> Optional(Get(f, "width"), ParseNonZeroUsize),
         height |-> Optional(Get(f, "height"), ParseNonZeroUsize),
         channels |-> Optional(Get(f, "channels"), ParseNonZeroUsize),
         inputs |-> Optional(Get(f, "inputs"), ParseNonZeroUsize),
         max_crop |-> Optional(Get(f, "max_crop"), ParseUsize),
         min_crop |-> Optional(Get(f, "min_crop"), ParseUsize),
         flip |-> WithDefault(Get(f, "flip"), ZeroOneBoolDeserialize, TRUE),
         policy |-> WithDefault(Get(f, "policy"),
                                LAMBDA t : VariantDeserialize(PolicyKindNames, t),
                                DefaultPolicy),
         step |-> WithDefault(Get(f, "step"), ParseUsize, DefaultStep),
         scale |-> WithDefault(Get(f, "scale"), ParseR64, DefaultScale),
         steps |-> OptVecUsizeDeserialize(Get(f, "steps")),
         scales |-> OptVecR64Deserialize(Get(f, "scales")),
         seq_scales |-> OptVecR64Deserialize(Get(f, "seq_scales")),
         gamma |-> WithDefault(Get(f, "gamma"), ParseR64, DefaultGamma)])

\* derived Serialize of RawConvolutionalConfig
RawConvFields(raw, checks) ==
    LET share == IF IsSome(raw.share_index)
                 THEN LayerIndexSerialize(raw.share_index.v, checks)
                 ELSE Ok(<<>>)
    IN  IF ~share.ok THEN share
        ELSE Ok(Present(
            [filters |-> Some(NatToString(raw.filters)),
             groups |-> Some(NatToString(raw.groups)),
             size |-> Some(NatToString(raw.size)),
             stride |-> Some(NatToString(raw.stride)),
             stride_x |-> OptMap(raw.stride_x, NatToString),
             stride_y |-> OptMap(raw.stride_y, NatToString),
             dilation |-> Some(NatToString(raw.dilation)),
             pad |-> Some(ZeroOneBoolSerialize(raw.pad)),
             padding |-> OptMap(raw.padding, NatToString),
             activation |-> Some(VariantSerialize(ActivationNames, raw.activation)),
             share_index |-> IF IsSome(raw.share_index) THEN Some(share.val) ELSE None,
             batch_normalize |-> Some(ZeroOneBoolSerialize(raw.batch_normalize)),
             xnor |-> Some(ZeroOneBoolSerialize(raw.xnor)),
             sway |-> Some(ZeroOneBoolSerialize(raw.sway)),
             rotate |-> Some(ZeroOneBoolSerialize(raw.rotate)),
             stretch |-> Some(ZeroOneBoolSerialize(raw.stretch)),
             stretch_sway |-> Some(ZeroOneBoolSerialize(raw.stretch_sway))]))

\* derived Deserialize of RawConvolutionalConfig
RawConvFromFields(f, checks) ==
    Collect(
        [filters |-> Required(Get(f, "filters"), ParseUsize),
         groups |-> WithDefault(Get(f, "groups"), ParseUsize, DefaultGroups),
         size |-> Required(Get(f, "size"), ParseUsize),
         stride |-> WithDefault(Get(f, "stride"), ParseUsize, DefaultStride),
         stride_x |-> Optional(Get(f, "stride_x"), ParseUsize),
         stride_y |-> Optional(Get(f, "stride_y"), ParseUsize),
         dilation |-> WithDefault(Get(f, "dilation"), ParseUsize, DefaultDilation),
         pad |-> WithDefault(Get(f, "pad"), ZeroOneBoolDeserialize, FALSE),
         padding |-> Optional(Get(f, "padding"), ParseUsize),
         activation |-> Required(Get(f, "activation"),
                                 LAMBDA t : VariantDeserialize(ActivationNames, t)),
         share_index |-> Optional(Get(f, "share_index"),
                                  LAMBDA t : LayerIndexDeserialize(t, checks)),
         batch_normalize |-> WithDefault(Get(f, "batch_normalize"),
                                         ZeroOneBoolDeserialize, FALSE),
         xnor |-> WithDefault(Get(f, "xnor"), ZeroOneBoolDeserialize, FALSE),
         sway |-> WithDefault(Get(f, "sway"), ZeroOneBoolDeserialize, FALSE),
         rotate |-> WithDefault(Get(f, "rotate"), ZeroOneBoolDeserialize, FALSE),
         stretch |-> WithDefault(Get(f, "stretch"), ZeroOneBoolDeserialize, FALSE),
         stretch_sway |-> WithDefault(Get(f, "stretch_sway"),
                                      ZeroOneBoolDeserialize, FALSE)])

\* derived Serialize of RawMaxPoolConfig
RawMaxPoolFields(raw) ==
    Present(
        [stride |-> Some(NatToString(raw.stride)),
         stride_x |-> OptMap(raw.stride_x, NatToString),
         stride_y |-> OptMap(raw.stride_y, NatToString),
         size |-> OptMap(raw.size, NatToString),
         padding |-> OptMap(raw.padding, NatToString),
         maxpool_depth |-> Some(NatToString(raw.maxpool_depth)),
         out_channels |-> Some(NatToString(raw.out_channels))])

\* derived Deserialize of RawMaxPoolConfig
RawMaxPoolFromFields(f) ==
    Collect(
        [stride |-> WithDefault(Get(f, "stride"), ParseUsize, DefaultMaxPoolStride),
         stride_x |-> Optional(Get(f, "stride_x"), ParseUsize),
         stride_y |-> Optional(Get(f, "stride_y"), ParseUsize),
         size |-> Optional(Get(f, "size"), ParseUsize),
         padding |-> Optional(Get(f, "padding"), ParseUsize),
         maxpool_depth |-> WithDefault(Get(f, "maxpool_depth"), ParseUsize,
                                       DefaultMaxPoolDepth),
         out_channels |-> WithDefault(Get(f, "out_channels"), ParseUsize,
                                      DefaultOutChannels)])

\* derived Serialize of ConnectedConfig
ConnectedFields(c) ==
    Present([output |-> Some(NatToString(c.output)),
             activation |-> Some(VariantSerialize(ActivationNames, c.activation)),
             batch_normalize |-> Some(ZeroOneBoolSerialize(c.batch_normalize))]
            @@ CommonFields(c.common))

\* derived Deserialize of ConnectedConfig
ConnectedFromFields(f) ==
    Collect([output |-> WithDefault(Get(f, "output"), ParseUsize, DefaultConnectedOutput),
             activation |-> WithDefault(Get(f, "activation"),
                                        LAMBDA t : VariantDeserialize(ActivationNames, t),
                                        DefaultConnectedActivation),
             batch_normalize |-> WithDefault(Get(f, "batch_normalize"),
                                             ZeroOneBoolDeserialize, FALSE),
             common |-> CommonFromFields(f)])

\* derived Serialize of RouteConfig
RouteFields(c, checks) ==
    LET layers == VecLayerIndexSerialize(c.layers, checks)
    IN  IF ~layers.ok THEN layers
        ELSE Ok(Present([layers |-> Some(layers.val),
                         groups |-> Some(NatToString(c.groups)),
                         groupd_id |-> Some(NatToString(c.groupd_id))]
                        @@ CommonFields(c.common)))

\* derived Deserialize of RouteConfig
RouteFromFields(f, checks) ==
    Collect([layers |-> Required(Get(f, "layers"),
                                 LAMBDA t : VecLayerIndexDeserialize(t, checks)),
             groups |-> WithDefault(Get(f, "groups"), ParseUsize, DefaultRouteGroups),
             groupd_id |-> WithDefault(Get(f, "groupd_id"), ParseUsize, DefaultRouteGroupId),
             common |-> CommonFromFields(f)])

\* derived Serialize of ShortcutConfig
ShortcutFields(c, checks) ==
    LET from == VecLayerIndexSerialize(c.from, checks)
    IN  IF ~from.ok THEN from
        ELSE Ok(Present([from |-> Some(from.val),
                         activation |-> Some(VariantSerialize(ActivationNames, c.activation)),
                         weights_type |-> Some(WeightsTypeSerialize(c.weights_type))]
                        @@ CommonFields(c.common)))

\* derived Deserialize of ShortcutConfig
ShortcutFromFields(f, checks) ==
    Collect([from |-> Required(Get(f, "from"),
                               LAMBDA t : VecLayerIndexDeserialize(t, checks)),
             activation |-> Required(Get(f, "activation"),
                                     LAMBDA t : VariantDeserialize(ActivationNames, t)),
             weights_type |-> WithDefault(Get(f, "weights_type"), WeightsTypeDeserialize,
                                          DefaultWeightsType),
             common |-> CommonFromFields(f)])

\* derived Serialize of UpSampleConfig
UpSampleFields(c) ==
    Present([stride |-> Some(NatToString(c.stride)),
             reverse |-> Some(ZeroOneBoolSerialize(c.reverse))]
            @@ CommonFields(c.common))

\* derived Deserialize of UpSampleConfig
UpSampleFromFields(f) ==
    Collect([stride |-> WithDefault(Get(f, "stride"), ParseUsize, DefaultUpSampleStride),
             reverse |-> WithDefault(Get(f, "reverse"), ZeroOneBoolDeserialize, FALSE),
             common |-> CommonFromFields(f)])

\* derived Serialize of YoloConfig (classes, num, mask, anchors, embedding_layer)
YoloFields(c, checks) ==
    LET embedding == IF IsSome(c.embedding_layer)
                     THEN LayerIndexSerialize(c.embedding_layer.v, checks)
                     ELSE Ok(<<>>)
    IN  IF ~embedding.ok THEN embedding
        ELSE Ok(Present(
            [classes |-> Some(NatToString(c.classes)),
             num |-> Some(NatToString(c.num)),
             mask |-> Some(VecUsizeSerialize(c.mask)),
             anchors |-> AnchorsSerialize(c.anchors),
             embedding_layer |-> IF IsSome(c.embedding_layer)
                                 THEN Some(embedding.val) ELSE None]
            @@ CommonFields(c.common)))

\* derived Deserialize of YoloConfig
YoloFromFields(f, checks) ==
    Collect([classes |-> WithDefault(Get(f, "classes"), ParseUsize, DefaultClasses),
             num |-> WithDefault(Get(f, "num"), ParseUsize, DefaultNum),
             mask |-> Required(Get(f, "mask"), VecUsizeDeserialize),
             anchors |-> AnchorsDeserialize(Get(f, "anchors")),
             embedding_layer |-> Optional(Get(f, "embedding_layer"),
                                          LAMBDA t : LayerIndexDeserialize(t, checks)),
             common |-> CommonFromFields(f)])

\* derived Serialize of BatchNormConfig
BatchNormFields(c) == Present(CommonFields(c.common))

\* derived Deserialize of BatchNormConfig
BatchNormFromFields(f) == Collect([common |-> CommonFromFields(f)])

\* a conversion applied to the value of a result
AndThen(r, F(_)) == IF r.ok THEN F(r.val) ELSE r

\* Serialize of Item: the section of an item, through the raw record where
\* the type is serialized `into` one
ItemSection(item, checks) ==
    LET name == VariantSerialize(ItemNames, item.kind)[1]
        c == item.cfg
        fields ==
            CASE item.kind = "Net" ->
                    AndThen(RawNetConfigFrom(c), LAMBDA raw : Ok(RawNetFields(raw)))
              [] item.kind = "Convolutional" ->
                    RawConvFields(RawConvolutionalConfigFrom(c), checks)
              [] item.kind = "MaxPool" -> Ok(RawMaxPoolFields(RawMaxPoolConfigFrom(c)))
              [] item.kind = "Connected" -> Ok(ConnectedFields(c))
              [] item.kind = "Route" -> RouteFields(c, checks)
              [] item.kind = "Shortcut" -> ShortcutFields(c, checks)
              [] item.kind = "UpSample" -> Ok(UpSampleFields(c))
              [] item.kind = "Yolo" -> YoloFields(c, checks)
              [] item.kind = "BatchNorm" -> Ok(BatchNormFields(c))
    IN  IF ~fields.ok THEN fields ELSE Ok(Section(name, fields.val))

\* Deserialize of Item: the item of a section, through the raw record where
\* the type is deserialized `try_from` one
ItemOfSection(section, checks) ==
    LET kind == VariantDeserialize(ItemNames, <<section.name>>)
        f == section.fields
        cfg ==
            CASE kind.val = "Net" ->
                    AndThen(RawNetFromFields(f), LAMBDA raw : NetConfigTryFrom(raw, checks))
              [] kind.val = "Convolutional" ->
                    AndThen(RawConvFromFields(f, checks), ConvolutionalConfigTryFrom)
              [] kind.val = "MaxPool" ->
                    AndThen(RawMaxPoolFromFields(f), LAMBDA raw : MaxPoolConfigFrom(raw, checks))
              [] kind.val = "Connected" -> ConnectedFromFields(f)
              [] kind.val = "Route" -> RouteFromFields(f, checks)
              [] kind.val = "Shortcut" -> ShortcutFromFields(f, checks)
              [] kind.val = "UpSample" -> UpSampleFromFields(f)
              [] kind.val = "Yolo" -> YoloFromFields(f, checks)
              [] kind.val = "BatchNorm" -> BatchNormFromFields(f)
    IN  IF ~kind.ok THEN kind
        ELSE IF ~cfg.ok THEN cfg
        ELSE Ok(Item(kind.val, cfg.val))

\* DarknetConfig::to_string: the sections of the items of the config
DarknetConfigToString(config, checks) ==
    LET items == ItemsFrom(config)
    IN  TryCollect([i \in 1 .. Len(items) |-> ItemSection(items[i], checks)])

\* DarknetConfig::from_str: the config of the items of the sections
DarknetConfigFromStr(sections, checks) ==
    AndThen(TryCollect([i \in 1 .. Len(sections) |-> ItemOfSection(sections[i], checks)]),
            DarknetConfigTryFrom)

----------------------------------------------------------------------------
(* The arguments the calls are made with *)

\* the sequences over S of length at most n
SeqsUpTo(S, n) == UNION {[1 .. k -> S] : k \in 0 .. n}
\* an optional list over S of length at most MaxLen
OptLists(S) == {None} \cup {Some(l) : l \in SeqsUpTo(S, MaxLen)}
Opt(S) == {None} \cup {Some(x) : x \in S}

CommonDefault == [clip |-> None, dont_load |-> FALSE]

BaseRawConv ==
    [filters |-> 2, groups |-> DefaultGroups, size |-> 3, stride |-> DefaultStride,
     stride_x |-> None, stride_y |-> None, dilation |-> DefaultDilation,
     pad |-> FALSE, padding |-> None, activation |-> "Leaky", share_index |-> None,
     batch_normalize |-> FALSE, xnor |-> FALSE,
     sway |-> FALSE, rotate |-> FALSE, stretch |-> FALSE, stretch_sway |-> FALSE]

\* raw convolutional records: the checked fields in every combination
RawConvChecked ==
    {[BaseRawConv EXCEPT !.size = size, !.dilation = dilation, !.groups = groups,
                         !.xnor = xnor, !.sway = f[1], !.rotate = f[2],
                         !.stretch = f[3], !.stretch_sway = f[4]] :
        size \in 0 .. MaxSize, dilation \in 1 .. 2, groups \in 1 .. 2,
        xnor \in BOOLEAN, f \in [1 .. 4 -> BOOLEAN]}

\* raw convolutional records: the defaulted fields in every combination
RawConvDefaulted ==
    {[BaseRawConv EXCEPT !.size = size, !.stride = stride, !.stride_x = sx,
                         !.stride_y = sy, !.pad = pad, !.padding = padding] :
        size \in 0 .. MaxSize, stride \in 1 .. 2, sx \in Opt({1, 3}), sy \in Opt({1, 3}),
        pad \in BOOLEAN, padding \in Opt({0, 2})}

RawConvInputs == RawConvChecked \cup RawConvDefaulted

BaseRawNet ==
    [max_batches |-> DefaultMaxBatches, batch |-> DefaultBatch, sgdr_cycle |-> None,
     momentum |-> DefaultMomentum, subdivisions |-> DefaultSubdivisions,
     sequential_subdivisions |-> None, adam |-> FALSE,
     b1 |-> DefaultB1, b2 |-> DefaultB2, eps |-> DefaultEps,
     width |-> Some(2), height |-> Some(2), channels |-> Some(1), inputs |-> None,
     max_crop |-> None, min_crop |-> None, flip |-> TRUE,
     policy |-> DefaultPolicy, step |-> DefaultStep, scale |-> DefaultScale,
     steps |-> None, scales |-> None, seq_scales |-> None, gamma |-> DefaultGamma]

\* raw net records: every presence of inputs, height, width, channels
RawNetShapes ==
    {[BaseRawNet EXCEPT !.inputs = inputs, !.height = height, !.width = width,
                        !.channels = channels, !.max_crop = max_crop, !.policy = policy] :
        inputs \in Opt({3}), height \in Opt({2}), width \in Opt({2, UsizeMax}),
        channels \in Opt({1}), max_crop \in Opt({4}), policy \in {"Constant", "Steps"}}

\* raw net records: the parallel arrays of the steps and sgdr policies
RawNetArrays ==
    {[BaseRawNet EXCEPT !.policy = policy, !.steps = steps, !.scales = scales,
                        !.seq_scales = seq_scales] :
        policy \in {"Steps", "Sgdr"}, steps \in OptLists({1, 2}),
        scales \in OptLists({Tenth, One}), seq_scales \in OptLists({Tenth, One})}

\* raw net records: every policy kind with its scalar sub-fields
RawNetScalars ==
    {[BaseRawNet EXCEPT !.policy = policy, !.step = step, !.scale = scale,
                        !.gamma = gamma, !.steps = steps, !.scales = scales] :
        policy \in PolicyKinds, step \in {DefaultStep, 2}, scale \in {DefaultScale, Tenth},
        gamma \in {DefaultGamma, Tenth}, steps \in Opt({<<1>>}), scales \in Opt({<<Tenth>>})}

\* raw net records: the defaulted fields
RawNetDefaulted ==
    {[BaseRawNet EXCEPT !.max_batches = max_batches, !.sgdr_cycle = sgdr_cycle,
                        !.subdivisions = subdivisions,
                        !.sequential_subdivisions = sequential_subdivisions,
                        !.adam = adam, !.min_crop = min_crop] :
        max_batches \in {DefaultMaxBatches, 7}, sgdr_cycle \in Opt({5}),
        subdivisions \in {DefaultSubdivisions, 4}, sequential_subdivisions \in Opt({2}),
        adam \in BOOLEAN, min_crop \in Opt({1})}

RawNetInputs == RawNetShapes \cup RawNetArrays \cup RawNetScalars \cup RawNetDefaulted

SampleNet ==
    [max_batches |-> 7, batch |-> DefaultBatch, sgdr_cycle |-> 7,
     momentum |-> DefaultMomentum, subdivisions |-> DefaultSubdivisions,
     sequential_subdivisions |-> DefaultSubdivisions, adam |-> None,
     input_size |-> Hwc(2, 2, 1), max_crop |-> 4, min_crop |-> 2, flip |-> TRUE,
     policy |-> PolicyPlain("Constant")]

SampleConv(filters) ==
    [filters |-> filters, groups |-> 1, size |-> 3, stride_x |-> 1, stride_y |-> 1,
     dilation |-> 1, padding |-> 1, activation |-> "Leaky", share_index |-> None,
     batch_normalize |-> TRUE, xnor |-> FALSE, deform |-> "None"]

\* the items handed to the assembler: one of every kind, and a second convolutional
ItemSamples ==
    {Item("Net", SampleNet),
     Item("Connected", [output |-> DefaultConnectedOutput,
                        activation |-> DefaultConnectedActivation,
                        batch_normalize |-> FALSE, common |-> CommonDefault]),
     Item("Convolutional", SampleConv(1)),
     Item("Convolutional", SampleConv(2)),
     Item("Route", [layers |-> <<Relative(1)>>, groups |-> 1, groupd_id |-> 0,
                    common |-> CommonDefault]),
     Item("Shortcut", [from |-> <<Relative(2)>>, activation |-> "Linear",
                       weights_type |-> "PerFeature", common |-> CommonDefault]),
     Item("MaxPool", [stride_x |-> 2, stride_y |-> 2, size |-> 2, padding |-> 1,
                      maxpool_depth |-> 0, out_channels |-> 1]),
     Item("UpSample", [stride |-> DefaultUpSampleStride, reverse |-> FALSE,
                       common |-> CommonDefault]),
     Item("Yolo", [classes |-> 2, num |-> 1, mask |-> <<0>>, anchors |-> None,
                   embedding_layer |-> None, common |-> CommonDefault]),
     Item("BatchNorm", [common |-> CommonDefault])}

\* the net records of the configs that are written: every policy, both shapes
NetSamples ==
    {[SampleNet EXCEPT !.input_size = shape, !.policy = policy, !.adam = adam] :
        shape \in {Hwc(2, 2, 1), Flat(3)},
        policy \in {PolicyPlain("Random"), PolicyPlain("Poly"), PolicyPlain("Constant"),
                    PolicyStep(2, Tenth), PolicyExp(Tenth), PolicySigmoid(Tenth, 2),
                    PolicySteps(<<1, 2>>, <<Tenth, One>>, <<One, One>>),
                    PolicySteps(<<>>, <<>>, <<>>),
                    PolicyPlain("Sgdr"),
                    PolicySgdrCustom(<<2>>, <<One>>, <<Tenth>>)},
        adam \in {None, Some([b1 |-> DefaultB1, b2 |-> Tenth, eps |-> DefaultEps])}}

LayerIndexSamples == {Relative(1), Absolute(0), Absolute(UsizeMax), Relative(-IsizeMin)}

ConvSamples ==
    {SampleConv(2),
     [SampleConv(2) EXCEPT !.stride_x = 2],
     [SampleConv(2) EXCEPT !.dilation = 2, !.padding = 0],
     [SampleConv(2) EXCEPT !.size = 1, !.padding = 0],
     [SampleConv(2) EXCEPT !.groups = 2, !.batch_normalize = FALSE],
     [SampleConv(2) EXCEPT !.xnor = TRUE, !.activation = "Mish"],
     [SampleConv(2) EXCEPT !.deform = "StretchSway"],
     [SampleConv(2) EXCEPT !.share_index = Some(Relative(1))],
     [SampleConv(2) EXCEPT !.share_index = Some(Absolute(3))]}

CommonSamples == {[clip |-> clip, dont_load |-> dont_load] :
                     clip \in {None, Some(Tenth)}, dont_load \in BOOLEAN}

\* the layers of the configs that are written
LayerSamples ==
    {Layer("Convolutional", c) : c \in ConvSamples}
    \cup {Layer("Connected", [output |-> n, activation |-> "Logistic",
                              batch_normalize |-> bn, common |-> CommonDefault]) :
             n \in {DefaultConnectedOutput, 3}, bn \in BOOLEAN}
    \cup {Layer("Route", [layers |-> layers, groups |-> 1, groupd_id |-> 0,
                          common |-> CommonDefault]) :
             layers \in SeqsUpTo(LayerIndexSamples, MaxLen)}
    \cup {Layer("Shortcut", [from |-> from, activation |-> "Linear",
                             weights_type |-> weights_type, common |-> CommonDefault]) :
             from \in {<<Relative(1)>>, <<Relative(2), Absolute(0)>>},
             weights_type \in WeightsTypes}
    \cup {Layer("MaxPool", [stride_x |-> stride, stride_y |-> 2, size |-> size,
                            padding |-> 1, maxpool_depth |-> 0, out_channels |-> 1]) :
             stride \in 1 .. 2, size \in 0 .. 2}
    \cup {Layer("UpSample", [stride |-> DefaultUpSampleStride, reverse |-> reverse,
                             common |-> CommonDefault]) : reverse \in BOOLEAN}
    \cup {Layer("Yolo", [classes |-> 2, num |-> 1, mask |-> mask, anchors |-> anchors,
                         embedding_layer |-> embedding_layer, common |-> CommonDefault]) :
             mask \in {<<0>>, <<0, 1>>},
             anchors \in {None, Some(<<<<1, 2>>>>), Some(<<<<1, 2>>, <<3, 4>>>>)},
             embedding_layer \in {None, Some(Relative(2))}}
    \cup {Layer("Yolo", [classes |-> 2, num |-> 1, mask |-> mask, anchors |-> anchors,
                         embedding_layer |-> None, common |-> CommonDefault]) :
             mask \in {<<>>, <<0>>}, anchors \in {None, Some(<<>>)}}
    \cup {Layer("BatchNorm", [common |-> common]) : common \in CommonSamples}

\* the configs that are written to text
ConfigSamples ==
    {[net |-> net, layers |-> <<>>] : net \in NetSamples}
    \cup {[net |-> SampleNet, layers |-> layers] :
             layers \in SeqsUpTo(LayerSamples, MaxLayers)}

\* the signed integers written as layer references
WrittenIndexes == {IsizeMin, -2, -1, 0, 1}

\* the layers written with references: the kind of the section and the
\* integers of its reference field (layers, from, share_index, embedding_layer)
WrittenLayers ==
    {[kind |-> "Route", refs |-> refs] :
        refs \in {<<v>> : v \in WrittenIndexes} \cup {<<-1, v>> : v \in WrittenIndexes}}
    \cup {[kind |-> kind, refs |-> <<v>>] :
             kind \in {"Shortcut", "Convolutional", "Yolo"}, v \in WrittenIndexes}
    \cup {[kind |-> "MaxPool", refs |-> <<>>]}

\* the section of the sample item of each kind
SampleSection ==
    [kind \in ItemKinds |->
        ItemSection(CHOOSE item \in ItemSamples :
                        item.kind = kind /\ (kind = "Convolutional" => item.cfg.filters = 1),
                    FALSE).val]

\* the text of a list of signed integers
WrittenList(refs) == JoinComma([i \in 1 .. Len(refs) |-> IsizeToString(refs[i])])

\* the section of a written layer: the sample section with the reference field set
WrittenSection(layer) ==
    LET base == SampleSection[layer.kind]
        key == CASE layer.kind = "Route" -> "layers"
                 [] layer.kind = "Shortcut" -> "from"
                 [] layer.kind = "Convolutional" -> "share_index"
                 [] layer.kind = "Yolo" -> "embedding_layer"
                 [] OTHER -> ""
    IN  IF key = "" THEN base
        ELSE Section(base.name, (key :> WrittenList(layer.refs)) @@ base.fields)

\* the texts that are read: the net section and the sections of written layers
WrittenSections == [layer \in WrittenLayers |-> WrittenSection(layer)]

TextSamples ==
    {[written |-> written,
      sections |-> <<SampleSection["Net"]>>
                   \o [i \in 1 .. Len(written) |-> WrittenSections[written[i]]]] :
        written \in SeqsUpTo(WrittenLayers, MaxLayers)}

\* the values the field codecs encode
VecUsizeValues ==
    {[codec |-> "vec_usize", value |-> v] : v \in SeqsUpTo({0, 2, UsizeMax}, MaxLen)}
OptVecUsizeValues ==
    {[codec |-> "opt_vec_usize", value |-> v] : v \in OptLists({0, 2, UsizeMax})}
OptVecR64Values ==
    {[codec |-> "opt_vec_r64", value |-> v] : v \in OptLists({0, Tenth, One + 5 * Tenth})}
VecLayerIndexValues ==
    {[codec |-> "vec_layer_index", value |-> v] :
        v \in SeqsUpTo({Relative(1), Relative(2), Absolute(0)}, MaxLen)}
AnchorsValues ==
    {[codec |-> "anchors", value |-> v] : v \in OptLists({<<1, 2>>, <<2, 1>>, <<3, 0>>})}
WeightsTypeValues ==
    {[codec |-> "weights_type", value |-> v] : v \in WeightsTypes}

\* the tokens of the list texts that are decoded: numbers, a number after a
\* blank, a negative number, a decimal, a word, nothing
ListTokens == {<<"1">>, <<" ", "2">>, <<"-", "1">>, <<"0", ".", "5">>, <<"x">>, <<>>}

\* the texts the field codecs decode, with the tokens they are made of
ListTexts ==
    {[codec |-> codec, tokens |-> tokens, text |-> JoinComma(tokens)] :
        codec \in {"vec_usize", "vec_layer_index"}, tokens \in SeqsUpTo(ListTokens, MaxTokens)}
OptListTexts ==
    {[codec |-> codec, tokens |-> tokens, text |-> Some(JoinComma(tokens))] :
        codec \in {"opt_vec_usize", "opt_vec_r64", "anchors"},
        tokens \in SeqsUpTo(ListTokens, MaxTokens)}
    \cup {[codec |-> codec, tokens |-> <<>>, text |-> None] :
             codec \in {"opt_vec_usize", "opt_vec_r64", "anchors"}}
WeightsTypeTexts ==
    {[codec |-> "weights_type", tokens |-> <<>>, text |-> text] :
        text \in {<<"per_feature">>, <<"per_layer">>, <<"per_channel">>, <<"none">>,
                  <<"None">>, <<"PerFeature">>, <<"per_feature", " ">>, <<>>}}

----------------------------------------------------------------------------
(* The calls.  output is the result of the conversion that is called, back *)
(* the result of the reverse conversion applied to it, again the result of *)
(* the first conversion applied to that.                                   *)

InitLayerIndex ==
    /\ op = "layer_index"
    /\ input \in Isize

InitAssemble ==
    /\ op = "assemble"
    /\ input \in SeqsUpTo(ItemSamples, MaxItems)

InitConvolutional ==
    /\ op = "convolutional"
    /\ input \in RawConvInputs

InitNet ==
    /\ op = "net"
    /\ input \in RawNetInputs

InitToString ==
    /\ op = "to_string"
    /\ input \in ConfigSamples

InitFromStr ==
    /\ op = "from_str"
    /\ input \in TextSamples

InitEncode ==
    /\ op = "encode"
    /\ \/ input \in VecUsizeValues
       \/ input \in OptVecUsizeValues
       \/ input \in OptVecR64Values
       \/ input \in VecLayerIndexValues
       \/ input \in AnchorsValues
       \/ input \in WeightsTypeValues

InitDecode ==
    /\ op = "decode"
    /\ \/ input \in ListTexts
       \/ input \in OptListTexts
       \/ input \in WeightsTypeTexts

\* input shapes: empty, smallest, small and real extents
ShapeSamples == {<<h, w, c>> : h \in {0, 1, 5, 416}, w \in {4, 416}, c \in {0, 3}}

\* convolutional records whose shape is computed: kernel, padding and strides
\* in every combination, a zero stride and an overflowing padding among them
ShapedConvs ==
    {[SampleConv(filters) EXCEPT !.size = size, !.padding = padding,
                                 !.stride_x = sx, !.stride_y = sy] :
        filters \in {2, 32}, size \in {0, 1, 3}, padding \in {0, 1, 600},
        sx \in 0 .. 2, sy \in 0 .. 2}

\* convolutional records whose weights are counted
WeighedConvs ==
    {[SampleConv(filters) EXCEPT !.groups = groups, !.size = size,
                                 !.batch_normalize = bn] :
        filters \in {0, 2, 32}, groups \in 0 .. 3, size \in {0, 1, 3, 6},
        bn \in BOOLEAN}

ChannelSamples == {0, 1, 3, 4, 6}

\* raw maxpool records whose shape is computed after normalization
RawShapedMaxPools ==
    {[stride |-> stride, stride_x |-> sx, stride_y |-> sy, size |-> size,
      padding |-> padding, maxpool_depth |-> 0, out_channels |-> 1] :
        stride \in 0 .. 2, sx \in Opt({3}), sy \in Opt({1}),
        size \in Opt({0, 1, 3}), padding \in Opt({0, 2})}

InitConvOutputShape ==
    /\ op = "conv_output_shape"
    /\ input \in [conv : ShapedConvs, shape : ShapeSamples]

InitConvNumWeights ==
    /\ op = "conv_num_weights"
    /\ input \in [conv : {c \in WeighedConvs : c.batch_normalize},
                  input_channels : ChannelSamples]

InitConvBuildWeights ==
    /\ op = "conv_build_weights"
    /\ input \in [conv : WeighedConvs,
                  input_shape : {<<416, 416, c>> : c \in ChannelSamples},
                  output_shape : {<<416, 416, 32>>}]

InitMaxPoolOutputShape ==
    /\ op = "maxpool_output_shape"
    /\ input \in [raw : RawShapedMaxPools,
                  shape : {<<s[1], s[2], 32>> : s \in ShapeSamples}]

\* shortcut records whose weights are counted
WeighedShortcuts ==
    {[from |-> from, activation |-> "Linear", weights_type |-> weights_type,
      common |-> CommonDefault] :
        from \in {<<>>, <<Relative(1)>>, <<Relative(1), Absolute(0)>>},
        weights_type \in WeightsTypes}

OutChannelSamples == {0, 1, 32, 600}

InitShortcutNumWeights ==
    /\ op = "shortcut_num_weights"
    /\ input \in [shortcut : WeighedShortcuts, out_channels : OutChannelSamples]

InitShortcutBuildWeights ==
    /\ op = "shortcut_build_weights"
    /\ input \in [shortcut : WeighedShortcuts,
                  input_shape : {<<<<4, 4, 32>>>>},
                  output_shape : {<<4, 4, c>> : c \in OutChannelSamples}]

\* connected records whose weights are built
WeighedConnecteds ==
    {[output |-> n, activation |-> "Logistic", batch_normalize |-> bn,
      common |-> CommonDefault] : n \in {1, 3}, bn \in BOOLEAN}

InitConnectedBuildWeights ==
    /\ op = "connected_build_weights"
    /\ input \in [connected : WeighedConnecteds,
                  input_shape : {0, 2, 5, 600},
                  output_shape : {0, 1, 3, 5}]

\* raw maxpool records: strides, size and padding given or not, zero among them
RawMaxPoolInputs ==
    {[stride |-> stride, stride_x |-> sx, stride_y |-> sy, size |-> size,
      padding |-> padding, maxpool_depth |-> 0, out_channels |-> 1] :
        stride \in 0 .. 2, sx \in Opt({0, 3}), sy \in Opt({1, 2}),
        size \in Opt({0, 1, 3}), padding \in Opt({0, 2})}

InitMaxPool ==
    /\ op = "maxpool"
    /\ input \in [raw : RawMaxPoolInputs]

\* raw convolutional records whose shape is computed after normalization:
\* a zero stride and a kernel larger than the padded input among them
RawShapedConvs ==
    {[BaseRawConv EXCEPT !.size = size, !.stride = stride, !.stride_x = sx,
                         !.pad = pad, !.padding = padding] :
        size \in 0 .. MaxSize, stride \in 0 .. 1, sx \in Opt({2}),
        pad \in BOOLEAN, padding \in Opt({0, 1})}

InitConvNormalizedShape ==
    /\ op = "conv_normalized_shape"
    /\ input \in [raw : RawShapedConvs,
                  shape : {<<h, w, 3>> : h \in {1, 5}, w \in {1, 4}}]

Init ==
    /\ pc = "ready"
    /\ output = Unset
    /\ back = Unset
    /\ again = Unset
    /\ overflow_checks \in BOOLEAN
    /\ \/ InitLayerIndex
       \/ InitAssemble
       \/ InitConvolutional
       \/ InitNet
       \/ InitEncode
       \/ InitDecode
       \/ InitConvOutputShape
       \/ InitConvNumWeights
       \/ InitConvBuildWeights
       \/ InitMaxPoolOutputShape
       \/ InitShortcutNumWeights
       \/ InitShortcutBuildWeights
       \/ InitConnectedBuildWeights
       \/ InitMaxPool
       \/ InitConvNormalizedShape

\* the position after a conversion that returned r
After(r, stage) == IF r.ok THEN stage ELSE "stopped"

\* isize -> LayerIndex
ConvertToLayerIndex ==
    /\ pc = "ready"
    /\ op = "layer_index"
    /\ output' = LayerIndexFromIsize(input, overflow_checks)
    /\ pc' = After(output', "forward")
    /\ UNCHANGED <<op, input, back, again, overflow_checks>>

\* LayerIndex -> isize
ConvertToIsize ==
    /\ pc = "forward"
    /\ op = "layer_index"
    /\ back' = IsizeFromLayerIndex(output.val, overflow_checks)
    /\ pc' = After(back', "back")
    /\ UNCHANGED <<op, input, output, again, overflow_checks>>

\* Vec<Item> -> DarknetConfig
Assemble ==
    /\ pc = "ready"
    /\ op = "assemble"
    /\ output' = DarknetConfigTryFrom(input)
    /\ pc' = After(output', "forward")
    /\ UNCHANGED <<op, input, back, again, overflow_checks>>

\* DarknetConfig -> Vec<Item>
Disassemble ==
    /\ pc = "forward"
    /\ op = "assemble"
    /\ back' = Ok(ItemsFrom(output.val))
    /\ pc' = "back"
    /\ UNCHANGED <<op, input, output, again, overflow_checks>>

\* RawConvolutionalConfig -> ConvolutionalConfig
NormalizeConvolutional ==
    /\ pc = "ready"
    /\ op = "convolutional"
    /\ output' = ConvolutionalConfigTryFrom(input)
    /\ pc' = After(output', "forward")
    /\ UNCHANGED <<op, input, back, again, overflow_checks>>

\* ConvolutionalConfig -> RawConvolutionalConfig
SerializeConvolutional ==
    /\ pc = "forward"
    /\ op = "convolutional"
    /\ back' = Ok(RawConvolutionalConfigFrom(output.val))
    /\ pc' = "back"
    /\ UNCHANGED <<op, input, output, again, overflow_checks>>

\* the serialized record normalized again
RenormalizeConvolutional ==
    /\ pc = "back"
    /\ op = "convolutional"
    /\ again' = ConvolutionalConfigTryFrom(back.val)
    /\ pc' = After(again', "again")
    /\ UNCHANGED <<op, input, output, back, overflow_checks>>

\* RawNetConfig -> NetConfig
NormalizeNet ==
    /\ pc = "ready"
    /\ op = "net"
    /\ output' = NetConfigTryFrom(input, overflow_checks)
    /\ pc' = After(output', "forward")
    /\ UNCHANGED <<op, input, back, again, overflow_checks>>

\* NetConfig -> RawNetConfig
SerializeNet ==
    /\ pc = "forward"
    /\ op = "net"
    /\ back' = RawNetConfigFrom(output.val)
    /\ pc' = After(back', "back")
    /\ UNCHANGED <<op, input, output, again, overflow_checks>>

\* the serialized record normalized again
RenormalizeNet ==
    /\ pc = "back"
    /\ op = "net"
    /\ again' = NetConfigTryFrom(back.val, overflow_checks)
    /\ pc' = After(again', "again")
    /\ UNCHANGED <<op, input, output, back, overflow_checks>>

\* DarknetConfig -> text
WriteToString ==
    /\ pc = "ready"
    /\ op = "to_string"
    /\ output' = DarknetConfigToString(input, overflow_checks)
    /\ pc' = After(output', "forward")
    /\ UNCHANGED <<op, input, back, again, overflow_checks>>

\* text -> DarknetConfig
ReadFromStr ==
    /\ pc = "forward"
    /\ op = "to_string"
    /\ back' = DarknetConfigFromStr(output.val, overflow_checks)
    /\ pc' = After(back', "back")
    /\ UNCHANGED <<op, input, output, again, overflow_checks>>

\* value -> text, by a field codec
Encode ==
    /\ pc = "ready"
    /\ op = "encode"
    /\ output' = CodecSerialize(input.codec, input.value, overflow_checks)
    /\ pc' = After(output', "forward")
    /\ UNCHANGED <<op, input, back, again, overflow_checks>>

\* the text of a value -> value
DecodeEncoded ==
    /\ pc = "forward"
    /\ op = "encode"
    /\ back' = CodecDeserialize(input.codec, output.val, overflow_checks)
    /\ pc' = After(back', "back")
    /\ UNCHANGED <<op, input, output, again, overflow_checks>>

\* text -> value, by a field codec
Decode ==
    /\ pc = "ready"
    /\ op = "decode"
    /\ output' = CodecDeserialize(input.codec, input.text, overflow_checks)
    /\ pc' = After(output', "forward")
    /\ UNCHANGED <<op, input, back, again, overflow_checks>>

\* the value of a text -> text
EncodeDecoded ==
    /\ pc = "forward"
    /\ op = "decode"
    /\ back' = CodecSerialize(input.codec, output.val, overflow_checks)
    /\ pc' = After(back', "back")
    /\ UNCHANGED <<op, input, output, again, overflow_checks>>

\* conv.output_shape(shape)
OutputShapeConvolutional ==
    /\ pc = "ready"
    /\ op = "conv_output_shape"
    /\ output' = ConvOutputShape(input.conv, input.shape, overflow_checks)
    /\ pc' = After(output', "forward")
    /\ UNCHANGED <<op, input, back, again, overflow_checks>>

\* conv.num_weights(input_channels)
NumWeightsConvolutional ==
    /\ pc = "ready"
    /\ op = "conv_num_weights"
    /\ output' = ConvNumWeights(input.conv, input.input_channels, overflow_checks)
    /\ pc' = After(output', "forward")
    /\ UNCHANGED <<op, input, back, again, overflow_checks>>

\* conv.build_weights(input_shape, output_shape)
BuildWeightsConvolutional ==
    /\ pc = "ready"
    /\ op = "conv_build_weights"
    /\ output' = ConvBuildWeights(input.conv, input.input_shape, overflow_checks)
    /\ pc' = After(output', "forward")
    /\ UNCHANGED <<op, input, back, again, overflow_checks>>

\* RawMaxPoolConfig -> MaxPoolConfig
NormalizeMaxPool ==
    /\ pc = "ready"
    /\ op \in {"maxpool", "maxpool_output_shape"}
    /\ output' = MaxPoolConfigFrom(input.raw, overflow_checks)
    /\ pc' = After(output', "forward")
    /\ UNCHANGED <<op, input, back, again, overflow_checks>>

\* maxpool.output_shape(shape), of the normalized record
OutputShapeMaxPool ==
    /\ pc = "forward"
    /\ op = "maxpool_output_shape"
    /\ back' = MaxPoolOutputShape(output.val, input.shape, overflow_checks)
    /\ pc' = After(back', "back")
    /\ UNCHANGED <<op, input, output, again, overflow_checks>>

\* shortcut.num_weights(out_channels)
NumWeightsShortcut ==
    /\ pc = "ready"
    /\ op = "shortcut_num_weights"
    /\ output' = ShortcutNumWeights(input.shortcut, input.out_channels, overflow_checks)
    /\ pc' = After(output', "forward")
    /\ UNCHANGED <<op, input, back, again, overflow_checks>>

\* shortcut.build_weights(input_shape, output_shape)
BuildWeightsShortcut ==
    /\ pc = "ready"
    /\ op = "shortcut_build_weights"
    /\ output' = ShortcutBuildWeights(input.shortcut, input.output_shape, overflow_checks)
    /\ pc' = After(output', "forward")
    /\ UNCHANGED <<op, input, back, again, overflow_checks>>

\* connected.build_weights(input_shape, output_shape)
BuildWeightsConnected ==
    /\ pc = "ready"
    /\ op = "connected_build_weights"
    /\ output' = ConnectedBuildWeights(input.connected, input.input_shape,
                                       input.output_shape, overflow_checks)
    /\ pc' = After(output', "forward")
    /\ UNCHANGED <<op, input, back, again, overflow_checks>>

\* MaxPoolConfig -> RawMaxPoolConfig
SerializeMaxPool ==
    /\ pc = "forward"
    /\ op = "maxpool"
    /\ back' = Ok(RawMaxPoolConfigFrom(output.val))
    /\ pc' = "back"
    /\ UNCHANGED <<op, input, output, again, overflow_checks>>

\* the serialized maxpool record normalized again
RenormalizeMaxPool ==
    /\ pc = "back"
    /\ op = "maxpool"
    /\ again' = MaxPoolConfigFrom(back.val, overflow_checks)
    /\ pc' = After(again', "again")
    /\ UNCHANGED <<op, input, output, back, overflow_checks>>

\* RawConvolutionalConfig -> ConvolutionalConfig, before its shape is computed
NormalizeShapedConvolutional ==
    /\ pc = "ready"
    /\ op = "conv_normalized_shape"
    /\ output' = ConvolutionalConfigTryFrom(input.raw)
    /\ pc' = After(output', "forward")
    /\ UNCHANGED <<op, input, back, again, overflow_checks>>

\* conv.output_shape(shape), of the normalized record
OutputShapeNormalized ==
    /\ pc = "forward"
    /\ op = "conv_normalized_shape"
    /\ back' = ConvOutputShape(output.val, input.shape, overflow_checks)
    /\ pc' = After(back', "back")
    /\ UNCHANGED <<op, input, output, again, overflow_checks>>

Next ==
    \/ ConvertToLayerIndex
    \/ ConvertToIsize
    \/ Assemble
    \/ Disassemble
    \/ NormalizeConvolutional
    \/ SerializeConvolutional
    \/ RenormalizeConvolutional
    \/ NormalizeNet
    \/ SerializeNet
    \/ RenormalizeNet
    \/ Encode
    \/ DecodeEncoded
    \/ Decode
    \/ EncodeDecoded
    \/ OutputShapeConvolutional
    \/ NumWeightsConvolutional
    \/ BuildWeightsConvolutional
    \/ NormalizeMaxPool
    \/ OutputShapeMaxPool
    \/ NumWeightsShortcut
    \/ BuildWeightsShortcut
    \/ BuildWeightsConnected
    \/ SerializeMaxPool
    \/ RenormalizeMaxPool
    \/ NormalizeShapedConvolutional
    \/ OutputShapeNormalized

Spec == Init /\ [][Next]_vars

\* the calls that write a config to text and read it back
InitFile ==
    /\ pc = "ready"
    /\ output = Unset
    /\ back = Unset
    /\ again = Unset
    /\ overflow_checks \in BOOLEAN
    /\ InitToString

NextFile ==
    \/ WriteToString
    \/ ReadFromStr

SpecFile == InitFile /\ [][NextFile]_vars

\* text -> DarknetConfig, for a text as written
ParseText ==
    /\ pc = "ready"
    /\ op = "from_str"
    /\ output' = DarknetConfigFromStr(input.sections, overflow_checks)
    /\ pc' = After(output', "forward")
    /\ UNCHANGED <<op, input, back, again, overflow_checks>>

\* DarknetConfig -> text, for a config that was read
WriteParsed ==
    /\ pc = "forward"
    /\ op = "from_str"
    /\ back' = DarknetConfigToString(output.val, overflow_checks)
    /\ pc' = After(back', "back")
    /\ UNCHANGED <<op, input, output, again, overflow_checks>>

\* the calls that read a written text
InitText ==
    /\ pc = "ready"
    /\ output = Unset
    /\ back = Unset
    /\ again = Unset
    /\ overflow_checks \in BOOLEAN
    /\ InitFromStr

NextText ==
    \/ ParseText
    \/ WriteParsed

SpecText == InitText /\ [][NextText]_vars

----------------------------------------------------------------------------
(* The claims *)

\* a conversion has been made and its result stored in r
Made(r) == "ok" \in DOMAIN r

\* C2: converting a signed integer v to a LayerIndex gives Relative(-v) for
\* v < 0 and Absolute(v) for v >= 0, and converting back returns v, for
\* every v of the signed range: no call stops on the way.
C2_LayerIndexRoundTrip ==
    op = "layer_index" =>
        /\ Made(output) =>
              /\ output.ok
              /\ output.val = (IF input < 0 THEN Relative(-input) ELSE Absolute(input))
        /\ Made(back) =>
              /\ back.ok
              /\ back.val = input

\* the rules of ConvolutionalConfig
ValidConv(c) ==
    /\ c.size = 1 => c.dilation = 1
    /\ c.xnor => c.groups = 1
    /\ c.deform # "None" => c.size # 1

\* the layer indexes of a layer
IndexesOf(layer) ==
    CASE layer.kind = "Route" -> layer.cfg.layers
      [] layer.kind = "Shortcut" -> layer.cfg.from
      [] OTHER -> <<>>

\* a layer index whose signed form fits the signed range
IndexInRange(index) == index.index <= IsizeMax

\* the validity invariants of a config: nonzero input dimensions, policy
\* lists of one length, the convolutional rules; its numbers are in range
\* (layer indexes fit the signed range, a pooling window is not empty)
ValidConfig(config) ==
    /\ \A i \in 1 .. Len(config.layers) :
          /\ \A j \in 1 .. Len(IndexesOf(config.layers[i])) :
                IndexInRange(IndexesOf(config.layers[i])[j])
          /\ config.layers[i].kind = "MaxPool" => config.layers[i].cfg.size > 0
    /\ IF config.net.input_size.kind = "Hwc"
       THEN \A i \in 1 .. 3 : config.net.input_size.hwc[i] # 0
       ELSE config.net.input_size.flat # 0
    /\ config.net.policy.kind \in {"Steps", "SgdrCustom"} =>
          /\ Len(config.net.policy.steps) = Len(config.net.policy.scales)
          /\ Len(config.net.policy.steps) = Len(config.net.policy.seq_scales)
    /\ \A i \in 1 .. Len(config.layers) :
          config.layers[i].kind = "Convolutional" => ValidConv(config.layers[i].cfg)

\* C1: for every config that satisfies the validity invariants, with lists
\* of any length and every enum variant, writing it to text succeeds and
\* reading the text back succeeds and returns the same config.
C1_RoundTrip ==
    (op = "to_string" /\ ValidConfig(input)) =>
        /\ Made(output) => output.ok
        /\ Made(back) => (back.ok /\ back.val = input)

\* the sequence is one the assembler must accept: a net item, then layers only
WellFormedItems(items) ==
    /\ Len(items) > 0
    /\ items[1].kind = "Net"
    /\ \A i \in 2 .. Len(items) : items[i].kind # "Net"

\* C3: assembling fails for the empty sequence, for a sequence whose first
\* record is not the net record and for one with a net record after the
\* first; it succeeds for every other sequence.
C3_AssembleAcceptsExactlyNetFirst ==
    (op = "assemble" /\ Made(output)) => (output.ok <=> WellFormedItems(input))

\* C3, reached: a sequence is refused for a net record in third place
C3_Witness ==
    /\ op = "assemble"
    /\ pc = "stopped"
    /\ Len(input) = 3
    /\ input[1].kind = "Net"
    /\ input[2].kind # "Net"
    /\ input[3].kind = "Net"
    /\ ~output.ok

\* C4: when assembling r0..rn succeeds the net is r0 and layer i is record
\* i+1, of the same kind, n layers in all, and the items of the model are
\* r0..rn again; a refused sequence returns an error and no model.
C4_AssembleKeepsRecords ==
    op = "assemble" =>
        /\ (Made(output) /\ output.ok) =>
              /\ output.val.net = input[1].cfg
              /\ Len(output.val.layers) = Len(input) - 1
              /\ \A i \in 1 .. Len(input) - 1 :
                    /\ output.val.layers[i].kind = input[i + 1].kind
                    /\ output.val.layers[i].cfg = input[i + 1].cfg
        /\ Made(back) => (back.ok /\ back.val = input)
        /\ (Made(output) /\ ~output.ok) => ("val" \notin DOMAIN output /\ ~Made(back))

\* C4, reached: three records of different kinds assembled and taken apart again
C4_Witness ==
    /\ op = "assemble"
    /\ pc = "back"
    /\ Len(input) = 3
    /\ input[2].kind = "Route"
    /\ input[3].kind = "Convolutional"
    /\ output.val.layers[2].cfg.filters = 2
    /\ back.val = input

InputSizeError == "either inputs or height/width/channels must be specified"

\* only inputs is given
FlatGiven(raw) ==
    IsSome(raw.inputs) /\ IsNone(raw.height) /\ IsNone(raw.width) /\ IsNone(raw.channels)
\* height, width and channels are given, inputs is not
HwcGiven(raw) ==
    IsNone(raw.inputs) /\ IsSome(raw.height) /\ IsSome(raw.width) /\ IsSome(raw.channels)
\* the default of max_crop, width * 2, is not computed or does not overflow
NoCropOverflow(raw) ==
    IsSome(raw.max_crop) \/ UnwrapOr(raw.width, 0) * 2 <= UsizeMax

\* C5: net normalization yields Flat(n) exactly when only inputs = n is
\* given, Hwc([h, w, c]) exactly when height, width and channels are given
\* and inputs is not, and fails for every other presence of the four
\* fields; with one of the two forms given, it does not fail on the input
\* shape.
C5_NetInputShape ==
    (op = "net" /\ Made(output)) =>
        /\ output.ok =>
              /\ output.val.input_size.kind = "Flat" <=> FlatGiven(input)
              /\ output.val.input_size.kind = "Hwc" <=> HwcGiven(input)
              /\ FlatGiven(input) => output.val.input_size = Flat(input.inputs.v)
              /\ HwcGiven(input) =>
                    output.val.input_size =
                        Hwc(input.height.v, input.width.v, input.channels.v)
        /\ (~FlatGiven(input) /\ ~HwcGiven(input)) => ~output.ok
        /\ (FlatGiven(input) \/ HwcGiven(input)) => (output.ok \/ output.err # InputSizeError)
        /\ ((FlatGiven(input) \/ HwcGiven(input)) /\ input.policy = "Constant"
                /\ NoCropOverflow(input)) => output.ok

\* C5, reached: a record with height and channels but no width is refused
C5_Witness ==
    /\ op = "net"
    /\ pc = "stopped"
    /\ IsNone(input.inputs) /\ IsSome(input.height)
    /\ IsNone(input.width) /\ IsSome(input.channels)
    /\ input.policy = "Constant"
    /\ ~output.ok
    /\ output.err = InputSizeError

\* C6: convolutional normalization fails for every raw record with size = 1
\* and dilation /= 1, so every ConvolutionalConfig it returns has
\* dilation = 1 whenever size = 1.
C6_ConvDilation ==
    (op = "convolutional" /\ Made(output)) =>
        /\ (input.size = 1 /\ input.dilation # 1) => ~output.ok
        /\ output.ok => (output.val.size = 1 => output.val.dilation = 1)
        /\ (Made(again) /\ again.ok) => (again.val.size = 1 => again.val.dilation = 1)

\* C6, reached: size = 1 with dilation = 2 is refused by the dilation rule
C6_Witness ==
    /\ op = "convolutional"
    /\ pc = "stopped"
    /\ input.size = 1
    /\ input.dilation = 2
    /\ ~output.ok
    /\ output.err = "dilation must be 1 if size is 1"

\* C7: convolutional normalization fails for every raw record with xnor set
\* and groups /= 1, so every ConvolutionalConfig it returns with xnor set
\* has groups = 1.
C7_ConvXnor ==
    (op = "convolutional" /\ Made(output)) =>
        /\ (input.xnor /\ input.groups # 1) => ~output.ok
        /\ output.ok => (output.val.xnor => output.val.groups = 1)
        /\ (Made(again) /\ again.ok) => (again.val.xnor => again.val.groups = 1)

\* C7, reached: xnor with groups = 2 is refused by the xnor rule
C7_Witness ==
    /\ op = "convolutional"
    /\ pc = "stopped"
    /\ input.xnor
    /\ input.groups = 2
    /\ ~output.ok
    /\ output.err = "groups must be 1 if xnor is enabled"

\* the number of deform flags a raw convolutional record sets
DeformFlagCount(raw) ==
    Cardinality({f \in {"sway", "rotate", "stretch", "stretch_sway"} : raw[f]})
\* the deform mode a single flag stands for
DeformOfFlags(raw) ==
    CASE raw.sway -> "Sway"
      [] raw.rotate -> "Rotate"
      [] raw.stretch -> "Stretch"
      [] raw.stretch_sway -> "StretchSway"
      [] OTHER -> "None"

\* C8: convolutional normalization fails whenever two or more of sway,
\* rotate, stretch, stretch_sway are set; a config it returns has the deform
\* mode of the one flag that is set, None when none is; serializing sets
\* exactly the flag of the mode, and normalizing the serialized record
\* succeeds with the same mode.
C8_ConvDeform ==
    (op = "convolutional" /\ Made(output)) =>
        /\ DeformFlagCount(input) >= 2 => ~output.ok
        /\ output.ok => output.val.deform = DeformOfFlags(input)
        /\ Made(back) =>
              /\ DeformFlagCount(back.val) = (IF output.val.deform = "None" THEN 0 ELSE 1)
              /\ DeformOfFlags(back.val) = output.val.deform
        /\ Made(again) => (again.ok /\ again.val.deform = output.val.deform)

\* C8, reached: stretch_sway alone gives StretchSway, kept through serialization
C8_Witness ==
    /\ op = "convolutional"
    /\ pc = "again"
    /\ input.stretch_sway
    /\ output.val.deform = "StretchSway"
    /\ back.val.stretch_sway /\ ~back.val.stretch
    /\ again.val.deform = "StretchSway"

\* C9: with policy kind steps, net normalization fails when steps is absent
\* and when scales is absent; with steps and scales given and seq_scales
\* absent, the seq_scales of the config is len(steps) times 1.0, and such a
\* record is accepted when the two given lists have the same length.
C9_StepsPolicy ==
    (op = "net" /\ Made(output) /\ input.policy = "Steps") =>
        /\ IsNone(input.steps) => ~output.ok
        /\ IsNone(input.scales) => ~output.ok
        /\ (IsSome(input.steps) /\ IsSome(input.scales) /\ IsNone(input.seq_scales)) =>
              /\ output.ok =>
                    /\ output.val.policy.kind = "Steps"
                    /\ output.val.policy.steps = input.steps.v
                    /\ output.val.policy.scales = input.scales.v
                    /\ Len(output.val.policy.seq_scales) = Len(input.steps.v)
                    /\ \A i \in 1 .. Len(input.steps.v) :
                          output.val.policy.seq_scales[i] = One
              /\ (Len(input.steps.v) = Len(input.scales.v) /\ HwcGiven(input)
                    /\ NoCropOverflow(input)) => output.ok

\* C9, reached: steps = [1, 2], scales = [0.1, 0.1] gives seq_scales = [1.0, 1.0]
C9_Witness ==
    /\ op = "net"
    /\ pc = "forward"
    /\ input.policy = "Steps"
    /\ input.steps = Some(<<1, 2>>)
    /\ input.scales = Some(<<Tenth, Tenth>>)
    /\ IsNone(input.seq_scales)
    /\ output.val.policy.seq_scales = <<One, One>>

\* the given list has the length of steps, or is not given
FitsSteps(raw, list) == IsNone(list) \/ Len(list.v) = Len(raw.steps.v)
\* the list of the policy is the given one, or all ones when none was given
GivenOrOnes(raw, list, got) ==
    IF IsSome(list) THEN got = list.v
    ELSE Len(got) = Len(raw.steps.v) /\ \A i \in 1 .. Len(got) : got[i] = One
\* a record the rest of net normalization accepts, with steps given
ArraysCase(raw) ==
    /\ IsSome(raw.steps)
    /\ IsNone(raw.scales) \/ IsNone(raw.seq_scales)
    /\ FitsSteps(raw, raw.scales)
    /\ FitsSteps(raw, raw.seq_scales)
    /\ HwcGiven(raw)
    /\ NoCropOverflow(raw)

\* C10 as claimed: for kind steps and for kind sgdr, when steps is given and
\* scales or seq_scales is not, normalization succeeds and the missing list
\* is all ones, as long as steps.
C10_Original ==
    (op = "net" /\ Made(output) /\ input.policy \in {"Steps", "Sgdr"} /\ ArraysCase(input)) =>
        /\ output.ok
        /\ GivenOrOnes(input, input.scales, output.val.policy.scales)
        /\ GivenOrOnes(input, input.seq_scales, output.val.policy.seq_scales)

\* C10, amended: for kind sgdr, when steps is given and scales or seq_scales
\* is not, normalization succeeds with the policy SgdrCustom and each
\* missing list is all ones, as long as steps; for kind steps that holds for
\* a missing seq_scales only, and a missing scales makes normalization fail.
C10_MissingArrays ==
    (op = "net" /\ Made(output) /\ ArraysCase(input)) =>
        /\ input.policy = "Sgdr" =>
              /\ output.ok
              /\ output.val.policy.kind = "SgdrCustom"
              /\ output.val.policy.steps = input.steps.v
              /\ GivenOrOnes(input, input.scales, output.val.policy.scales)
              /\ GivenOrOnes(input, input.seq_scales, output.val.policy.seq_scales)
        /\ (input.policy = "Steps" /\ IsNone(input.scales)) =>
              (~output.ok /\ output.err = "scales must be specified for step policy")
        /\ (input.policy = "Steps" /\ IsSome(input.scales)) =>
              /\ output.ok
              /\ output.val.policy.kind = "Steps"
              /\ output.val.policy.scales = input.scales.v
              /\ GivenOrOnes(input, input.seq_scales, output.val.policy.seq_scales)

\* C10, reached: kind sgdr with steps = [1, 2] alone gives two lists of ones
C10_Witness ==
    /\ op = "net"
    /\ pc = "forward"
    /\ input.policy = "Sgdr"
    /\ input.steps = Some(<<1, 2>>)
    /\ IsNone(input.scales)
    /\ IsNone(input.seq_scales)
    /\ output.val.policy.kind = "SgdrCustom"
    /\ output.val.policy.scales = <<One, One>>
    /\ output.val.policy.seq_scales = <<One, One>>

\* a given list whose length is not the length of the given steps
Mismatch(raw, list) == IsSome(raw.steps) /\ IsSome(list) /\ Len(list.v) # Len(raw.steps.v)

\* C11: every NetConfig that net normalization returns with the policy Steps
\* or SgdrCustom has steps, scales and seq_scales of one length; a raw record
\* of kind steps or sgdr whose given scales or seq_scales has another length
\* than its steps is not normalized.
C11_PolicyArrayLengths ==
    (op = "net" /\ Made(output)) =>
        /\ (output.ok /\ output.val.policy.kind \in {"Steps", "SgdrCustom"}) =>
              /\ Len(output.val.policy.steps) = Len(output.val.policy.scales)
              /\ Len(output.val.policy.steps) = Len(output.val.policy.seq_scales)
        /\ (input.policy \in {"Steps", "Sgdr"}
              /\ (Mismatch(input, input.scales) \/ Mismatch(input, input.seq_scales))) =>
              ~output.ok

\* C11, reached: kind steps with two steps, two scales and one seq_scales is
\* refused for the length of seq_scales
C11_Witness ==
    /\ op = "net"
    /\ pc = "stopped"
    /\ input.policy = "Steps"
    /\ input.steps = Some(<<1, 2>>)
    /\ input.scales = Some(<<Tenth, One>>)
    /\ input.seq_scales = Some(<<One>>)
    /\ ~output.ok
    /\ output.err = "the length of steps and seq_scales must be equal"

\* the position a layer index held at position i resolves to
Resolve(index, i) == IF index.kind = "Relative" THEN i - index.index ELSE index.index

\* the layer indexes a layer holds
HeldIndexes(layer) ==
    CASE layer.kind = "Route" -> layer.cfg.layers
      [] layer.kind = "Shortcut" -> layer.cfg.from
      [] layer.kind = "Convolutional" ->
            IF IsSome(layer.cfg.share_index) THEN <<layer.cfg.share_index.v>> ELSE <<>>
      [] layer.kind = "Yolo" ->
            IF IsSome(layer.cfg.embedding_layer) THEN <<layer.cfg.embedding_layer.v>> ELSE <<>>
      [] OTHER -> <<>>

\* a written reference at position i (0-based) that points to no earlier layer
BadReference(v, i) == LET at == IF v < 0 THEN i + v ELSE v IN at < 0 \/ at >= i
HasBadReference(written) ==
    \E p \in 1 .. Len(written) : \E j \in 1 .. Len(written[p].refs) :
        BadReference(written[p].refs[j], p - 1)

Unconvertible(written) ==
    \E p \in 1 .. Len(written) : \E j \in 1 .. Len(written[p].refs) :
        written[p].refs[j] = IsizeMin

ListCodecs == {"vec_usize", "opt_vec_usize", "opt_vec_r64", "vec_layer_index"}
OptionalCodecs == {"opt_vec_usize", "opt_vec_r64", "anchors"}

\* the text a codec call holds, for a codec whose text is optional or not
TextOf(codec, text) == IF codec \in OptionalCodecs THEN text.v ELSE text
ListOf(codec, value) == IF codec \in OptionalCodecs THEN value.v ELSE value

\* the tokens that are numbers of the element type of a codec, blanks aside
NumberTokens(codec) ==
    CASE codec \in {"vec_usize", "opt_vec_usize", "anchors"} -> {<<"1">>, <<" ", "2">>}
      [] codec = "vec_layer_index" -> {<<"1">>, <<" ", "2">>, <<"-", "1">>}
      [] codec = "opt_vec_r64" -> {<<"1">>, <<" ", "2">>, <<"-", "1">>, <<"0", ".", "5">>}

\* the element a number token denotes
TokenElement(codec, token) ==
    LET n == CASE token = <<"1">> -> 1
               [] token = <<" ", "2">> -> 2
               [] token = <<"-", "1">> -> -1
               [] OTHER -> 0
    IN  CASE codec = "vec_layer_index" -> IF n < 0 THEN Relative(-n) ELSE Absolute(n)
          [] codec = "opt_vec_r64" -> IF token = <<"0", ".", "5">> THEN 5 * Tenth ELSE n * One
          [] OTHER -> n

\* C13: for each list codec, decoding the encoding of a list returns the
\* list, for lists of every length, the empty list (encoded as the empty
\* text) included; blanks in a text are ignored when decoding, and a token
\* that is no number of the element type makes decoding fail.
C13_ListCodecRoundTrip ==
    /\ (op = "encode" /\ input.codec \in ListCodecs
          /\ (input.codec \in OptionalCodecs => IsSome(input.value))) =>
          /\ Made(output) =>
                /\ output.ok
                /\ ListOf(input.codec, input.value) = <<>> =>
                      TextOf(input.codec, output.val) = <<>>
          /\ Made(back) => (back.ok /\ back.val = input.value)
    /\ (op = "decode" /\ input.codec \in ListCodecs /\ Made(output)
          /\ (input.codec \in OptionalCodecs => IsSome(input.text))
          /\ (input.tokens = <<>> \/ TextOf(input.codec, input.text) # <<>>)) =>
          IF \A i \in 1 .. Len(input.tokens) : input.tokens[i] \in NumberTokens(input.codec)
          THEN /\ output.ok
               /\ ListOf(input.codec, output.val) =
                     [i \in 1 .. Len(input.tokens) |->
                         TokenElement(input.codec, input.tokens[i])]
          ELSE ~output.ok

\* C14: for every WeightsType variant, None, PerFeature and PerChannel,
\* decoding the text that encoding gives succeeds and returns the variant.
C14_WeightsTypeRoundTrip ==
    (op = "encode" /\ input.codec = "weights_type") =>
        /\ Made(output) => output.ok
        /\ Made(back) => (back.ok /\ back.val = input.value)

\* C15: decoding a weights-type text gives PerFeature for "per_feature" and
\* for its alias "per_layer", PerChannel for "per_channel", and fails for
\* every other text; PerFeature is always encoded as "per_feature", also
\* when it was read from the alias.
C15_WeightsTypeDecode ==
    /\ (op = "decode" /\ input.codec = "weights_type") =>
          /\ Made(output) =>
                CASE input.text \in {<<"per_feature">>, <<"per_layer">>} ->
                        output.ok /\ output.val = "PerFeature"
                  [] input.text = <<"per_channel">> ->
                        output.ok /\ output.val = "PerChannel"
                  [] OTHER -> ~output.ok
          /\ (Made(back) /\ output.val = "PerFeature") =>
                (back.ok /\ back.val = <<"per_feature">>)
    /\ (op = "encode" /\ input.codec = "weights_type" /\ input.value = "PerFeature"
          /\ Made(output)) =>
          (output.ok /\ output.val = <<"per_feature">>)

\* C15, reached: the alias is read as PerFeature and written as "per_feature"
C15_Witness ==
    /\ op = "decode"
    /\ pc = "back"
    /\ input.codec = "weights_type"
    /\ input.text = <<"per_layer">>
    /\ output.val = "PerFeature"
    /\ back.val = <<"per_feature">>

\* C16: decoding an anchor text with an odd number of values fails;
\* decoding 2n values gives the n pairs (v1, v2), (v3, v4), ... in order;
\* and decoding the encoding of a list of pairs returns the list.
C16_Anchors ==
    /\ (op = "decode" /\ input.codec = "anchors" /\ IsSome(input.text) /\ Made(output)
          /\ (input.tokens = <<>> \/ input.text.v # <<>>)
          /\ \A i \in 1 .. Len(input.tokens) : input.tokens[i] \in NumberTokens("anchors")) =>
          IF Len(input.tokens) % 2 = 1 THEN ~output.ok
          ELSE /\ output.ok
               /\ output.val = Some([i \in 1 .. Len(input.tokens) \div 2 |->
                                        <<TokenElement("anchors", input.tokens[2 * i - 1]),
                                          TokenElement("anchors", input.tokens[2 * i])>>])
    /\ (op = "encode" /\ input.codec = "anchors" /\ IsSome(input.value)) =>
          /\ Made(output) => output.ok
          /\ Made(back) => (back.ok /\ back.val = input.value)

\* (extent + 2 * padding - size) / stride + 1 in the integers
ConvFormula(extent, padding, size, stride) ==
    (extent + 2 * padding - size) \div stride + 1

\* the formula has a value, and usize holds it and every value on the way to it
ConvFormulaInRange(extent, padding, size, stride) ==
    /\ stride >= 1
    /\ extent + 2 * padding >= size
    /\ extent + 2 * padding <= ShapeMax
    /\ ConvFormula(extent, padding, size, stride) <= ShapeMax

\* the convolutional layer of the shape propagation example
ExampleConv ==
    [SampleConv(32) EXCEPT !.size = 3, !.stride_x = 1, !.stride_y = 1, !.padding = 1]

\* C17: ConvolutionalConfig.output_shape([h, w, c]) returns
\* [(h + 2*padding - size) / stride_y + 1, (w + 2*padding - size) / stride_x + 1,
\* filters] with truncating integer division, whatever c is, wherever the
\* two quotients have a value in the unsigned range; the input [416,416,3]
\* with size 3, strides 1, padding 1 and filters 32 gives [416,416,32].
C17_ConvOutputShape ==
    (op = "conv_output_shape" /\ Made(output)) =>
        LET conv == input.conv
            h == input.shape[1]
            w == input.shape[2]
        IN  /\ (/\ ConvFormulaInRange(h, conv.padding, conv.size, conv.stride_y)
                /\ ConvFormulaInRange(w, conv.padding, conv.size, conv.stride_x))
               => output = Ok(<<ConvFormula(h, conv.padding, conv.size, conv.stride_y),
                                ConvFormula(w, conv.padding, conv.size, conv.stride_x),
                                conv.filters>>)
            /\ (conv = ExampleConv /\ input.shape = <<416, 416, 3>>)
               => output = Ok(<<416, 416, 32>>)

\* a quotient that truncates is computed: (5 + 2*1 - 0) / 2 + 1 = 4
C17_Witness ==
    /\ op = "conv_output_shape"
    /\ pc = "forward"
    /\ input.conv = [SampleConv(32) EXCEPT !.size = 0, !.padding = 1,
                                           !.stride_x = 1, !.stride_y = 2]
    /\ input.shape = <<5, 416, 3>>
    /\ output = Ok(<<4, 419, 32>>)

\* (extent + padding - size) / stride + 1 in the integers
MaxPoolFormula(extent, padding, size, stride) ==
    (extent + padding - size) \div stride + 1

\* the formula has a value, and usize holds it and every value on the way to it
MaxPoolFormulaInRange(extent, padding, size, stride) ==
    /\ stride >= 1
    /\ extent + padding >= size
    /\ extent + padding <= ShapeMax
    /\ MaxPoolFormula(extent, padding, size, stride) <= ShapeMax

\* the raw maxpool record of the shape propagation example
ExampleRawMaxPool ==
    [stride |-> 2, stride_x |-> None, stride_y |-> None, size |-> None,
     padding |-> None, maxpool_depth |-> 0, out_channels |-> 1]

\* C18: MaxPoolConfig.output_shape([h, w, c]) returns
\* [(h + padding - size) / stride_y + 1, (w + padding - size) / stride_x + 1, c],
\* with padding counted once and the channels unchanged, wherever the two
\* quotients have a value in the unsigned range; the record with stride = 2
\* and size and padding unset normalizes to size 2, padding 1 and gives
\* [208,208,32] on the input [416,416,32].
C18_MaxPoolOutputShape ==
    (op = "maxpool_output_shape" /\ Made(back)) =>
        LET maxpool == output.val
            h == input.shape[1]
            w == input.shape[2]
        IN  /\ (/\ MaxPoolFormulaInRange(h, maxpool.padding, maxpool.size, maxpool.stride_y)
                /\ MaxPoolFormulaInRange(w, maxpool.padding, maxpool.size, maxpool.stride_x))
               => back = Ok(<<MaxPoolFormula(h, maxpool.padding, maxpool.size, maxpool.stride_y),
                              MaxPoolFormula(w, maxpool.padding, maxpool.size, maxpool.stride_x),
                              input.shape[3]>>)
            /\ (input.raw = ExampleRawMaxPool /\ input.shape = <<416, 416, 32>>)
               => /\ maxpool.size = 2
                  /\ maxpool.padding = 1
                  /\ back = Ok(<<208, 208, 32>>)

\* the example of C18 is normalized and its shape computed
C18_Witness ==
    /\ op = "maxpool_output_shape"
    /\ pc = "back"
    /\ input.raw = ExampleRawMaxPool
    /\ input.shape = <<416, 416, 32>>
    /\ output.val.size = 2
    /\ output.val.padding = 1
    /\ back = Ok(<<208, 208, 32>>)

\* input_channels is a multiple of groups
MultipleOf(input_channels, groups) ==
    \E k \in 0 .. input_channels : input_channels = k * groups

\* (input_channels / groups) * filters * size^2 in the integers
WeightsCount(conv, input_channels) ==
    (input_channels \div conv.groups) * conv.filters * conv.size * conv.size

\* usize holds the count
CountInRange(conv, input_channels) ==
    conv.groups # 0 => WeightsCount(conv, input_channels) <= ShapeMax

\* C19: for every input_channels >= 0 and every groups >= 0,
\* ConvolutionalConfig.num_weights(input_channels) returns the count
\* (input_channels / groups) * filters * size^2 when input_channels is a
\* multiple of groups, and an error value, never a count and never a panic,
\* when it is not; counts above the unsigned range are left aside.
C19_NumWeights ==
    (op = "conv_num_weights" /\ Made(output) /\ CountInRange(input.conv, input.input_channels)) =>
        IF MultipleOf(input.input_channels, input.conv.groups)
        THEN /\ output.ok
             /\ input.conv.groups # 0 => output.val = WeightsCount(input.conv, input.input_channels)
        ELSE ~output.ok /\ ~output.panic

\* C20: ConvolutionalConfig.build_weights requests a biases buffer of exactly
\* filters elements and a weights buffer of exactly num_weights(input
\* channels) elements, and requests the batch-norm scale, bias, mean and
\* variance blocks, each of filters elements, if and only if batch_normalize
\* is set; when num_weights fails it returns that error and no buffers.
C20_BuildWeights ==
    (op = "conv_build_weights" /\ Made(output)) =>
        LET conv == input.conv
            channels == input.input_shape[3]
            count == ConvNumWeights(conv, channels, overflow_checks)
        IN  /\ count.ok =>
                /\ output.ok
                /\ output.val.biases = conv.filters
                /\ output.val.weights = count.val
                /\ (conv.groups # 0 /\ CountInRange(conv, channels))
                   => output.val.weights = WeightsCount(conv, channels)
                /\ output.val.scales.some <=> conv.batch_normalize
                /\ conv.batch_normalize =>
                    /\ DOMAIN output.val.scales.v = {"scale", "bias", "mean", "variance"}
                    /\ \A block \in DOMAIN output.val.scales.v :
                          output.val.scales.v[block] = conv.filters
            /\ ~count.ok => ~output.ok
            /\ (~count.ok /\ ~count.panic) =>
                output = Err("the input channels is not multiple of groups")

\* the weight sizing example with batch_normalize set: 864 weights, 32 biases
\* and the four blocks of 32
C20_Witness ==
    /\ op = "conv_build_weights"
    /\ pc = "forward"
    /\ input.conv.filters = 32
    /\ input.conv.groups = 1
    /\ input.conv.size = 3
    /\ input.conv.batch_normalize
    /\ input.input_shape[3] = 3
    /\ output = Ok([weights |-> 864, biases |-> 32,
                    scales |-> Some([scale |-> 32, bias |-> 32, mean |-> 32,
                                     variance |-> 32])])

\* the count of the claim, in the integers: none, len(from) + 1, or that
\* number times out_channels
ShortcutCount(shortcut, out_channels) ==
    CASE shortcut.weights_type = "None" -> None
      [] shortcut.weights_type = "PerFeature" -> Some(Len(shortcut.from) + 1)
      [] shortcut.weights_type = "PerChannel" ->
            Some((Len(shortcut.from) + 1) * out_channels)

\* usize holds the count
ShortcutCountInRange(shortcut, out_channels) ==
    LET count == ShortcutCount(shortcut, out_channels)
    IN  count.some => count.v <= ShapeMax

\* C21: ShortcutConfig.num_weights(out_channels) is absent for weights type
\* None, len(from) + 1 for PerFeature and (len(from) + 1) * out_channels for
\* PerChannel, wherever usize holds the count; build_weights makes a buffer
\* of exactly that length, or none.
C21_ShortcutWeights ==
    /\ (op = "shortcut_num_weights" /\ Made(output)
        /\ ShortcutCountInRange(input.shortcut, input.out_channels))
       => output = Ok(ShortcutCount(input.shortcut, input.out_channels))
    /\ (op = "shortcut_build_weights" /\ Made(output)
        /\ ShortcutCountInRange(input.shortcut, input.output_shape[3]))
       => output = Ok([weights |-> ShortcutCount(input.shortcut, input.output_shape[3])])

\* a PerChannel shortcut from two layers into 32 channels gets a buffer of 96
C21_Witness ==
    /\ op = "shortcut_build_weights"
    /\ pc = "forward"
    /\ input.shortcut.weights_type = "PerChannel"
    /\ Len(input.shortcut.from) = 2
    /\ input.output_shape[3] = 32
    /\ output = Ok([weights |-> Some(96)])

\* C27: ConnectedConfig.build_weights(input, output) requests a weights
\* buffer of input * output elements, a biases buffer of output elements,
\* one for each output unit, and a scale block sized to output if and only
\* if batch_normalize is set; products above the unsigned range are left aside.
C27_ConnectedWeights ==
    (op = "connected_build_weights" /\ Made(output)
     /\ input.input_shape * input.output_shape <= ShapeMax) =>
        /\ output.ok
        /\ output.val.weights = input.input_shape * input.output_shape
        /\ output.val.biases = input.output_shape
        /\ output.val.scales.some <=> input.connected.batch_normalize
        /\ input.connected.batch_normalize =>
              \A block \in DOMAIN output.val.scales.v :
                  output.val.scales.v[block] = input.output_shape

\* C22: convolutional normalization sets padding to size / 2, truncating,
\* whenever the pad flag is set, with or without an explicit padding; when
\* pad is not set, padding is the explicit padding if given and 0 otherwise.
\* Serialization emits pad = 0 with the canonical padding explicit, and
\* normalizing the serialized record returns the same padding.
C22_ConvPadding ==
    (op = "convolutional" /\ Made(output) /\ output.ok) =>
        /\ input.pad => output.val.padding = input.size \div 2
        /\ (~input.pad /\ input.padding.some) => output.val.padding = input.padding.v
        /\ (~input.pad /\ ~input.padding.some) => output.val.padding = 0
        /\ Made(back) =>
              /\ back.val.pad = FALSE
              /\ back.val.padding = Some(output.val.padding)
        /\ Made(again) =>
              /\ again.ok
              /\ again.val.padding = output.val.padding

\* pad is set beside an explicit padding of 2: size 3 gives padding 1, which
\* the record normalized again keeps
C22_Witness ==
    /\ op = "convolutional"
    /\ pc = "again"
    /\ input.pad
    /\ input.padding = Some(2)
    /\ input.size = 3
    /\ output.val.padding = 1
    /\ back.val.padding = Some(1)
    /\ again.val.padding = 1

\* a section's fields with the shared stride not written
WithoutStride(fields) == [k \in DOMAIN fields \ {"stride"} |-> fields[k]]

\* the shared stride read from a convolutional and from a maxpool section
\* that do not write it
AbsentConvStride ==
    RawConvFromFields(WithoutStride(RawConvFields(BaseRawConv, FALSE).val), FALSE).val.stride
AbsentMaxPoolStride ==
    RawMaxPoolFromFields(WithoutStride(RawMaxPoolFields(ExampleRawMaxPool))).val.stride

\* the axis strides of a normalized record are those the raw record resolves to
StridesResolved(raw, cfg) ==
    /\ cfg.stride_x = (IF raw.stride_x.some THEN raw.stride_x.v ELSE raw.stride)
    /\ cfg.stride_y = (IF raw.stride_y.some THEN raw.stride_y.v ELSE raw.stride)

\* the serialized record gives both axis strides and the default shared stride
StridesEmitted(cfg, raw, default) ==
    /\ raw.stride_x = Some(cfg.stride_x)
    /\ raw.stride_y = Some(cfg.stride_y)
    /\ raw.stride = default

\* C23: in convolutional and in maxpool normalization stride_x is the
\* explicit stride_x when given and the shared stride otherwise, and
\* likewise and independently stride_y; the shared stride is 1 when absent;
\* serialization emits both axis strides and the shared stride at its
\* default, and normalizing the serialized record returns the same strides.
C23_Strides ==
    /\ AbsentConvStride = 1
    /\ AbsentMaxPoolStride = 1
    /\ (op = "convolutional" /\ Made(output) /\ output.ok) =>
          /\ StridesResolved(input, output.val)
          /\ Made(back) => StridesEmitted(output.val, back.val, 1)
          /\ Made(again) =>
                /\ again.ok
                /\ again.val.stride_x = output.val.stride_x
                /\ again.val.stride_y = output.val.stride_y
    /\ (op = "maxpool" /\ Made(output) /\ output.ok) =>
          /\ StridesResolved(input.raw, output.val)
          /\ Made(back) => StridesEmitted(output.val, back.val, 1)
          /\ Made(again) =>
                /\ again.ok
                /\ again.val.stride_x = output.val.stride_x
                /\ again.val.stride_y = output.val.stride_y

\* a maxpool record with stride 2 and only stride_x = 3 given resolves to
\* strides 3 and 2, which the record normalized again keeps
C23_Witness ==
    /\ op = "maxpool"
    /\ pc = "again"
    /\ input.raw.stride = 2
    /\ input.raw.stride_x = Some(3)
    /\ input.raw.stride_y = None
    /\ output.val.stride_x = 3
    /\ output.val.stride_y = 2
    /\ back.val.stride = 1
    /\ again.val.stride_x = 3
    /\ again.val.stride_y = 2

\* C24: maxpool normalization sets size to the explicit size when given and
\* to the shared stride, not to stride_x or stride_y, otherwise; it sets
\* padding to the explicit padding when given and to the resolved size
\* minus 1 otherwise, where that difference is not negative.
C24_MaxPoolDefaults ==
    (op = "maxpool" /\ Made(output) /\ output.ok) =>
        LET raw == input.raw
            size == IF raw.size.some THEN raw.size.v ELSE raw.stride
        IN  /\ output.val.size = size
            /\ raw.padding.some => output.val.padding = raw.padding.v
            /\ (~raw.padding.some /\ size >= 1) => output.val.padding = size - 1

\* stride 2 beside stride_x = 3, size and padding unset: size 2, padding 1
C24_Witness ==
    /\ op = "maxpool"
    /\ pc = "forward"
    /\ input.raw.stride = 2
    /\ input.raw.stride_x = Some(3)
    /\ input.raw.size = None
    /\ input.raw.padding = None
    /\ output.val.size = 2
    /\ output.val.padding = 1

\* C28: maxpool normalization is total: for every raw maxpool record, one
\* whose resolved size is 0 and whose padding is unset included, it returns
\* a canonical record whose padding is the explicit padding or the resolved
\* size minus 1, a number that is not negative: size - 1 never underflows.
C28_MaxPoolTotal ==
    (op = "maxpool" /\ Made(output)) =>
        LET raw == input.raw
            size == IF raw.size.some THEN raw.size.v ELSE raw.stride
        IN  /\ output.ok
            /\ ~raw.padding.some =>
                  /\ size - 1 >= 0
                  /\ output.val.padding = size - 1

\* the policy kinds without arrays, and the sub-fields each of them needs
ScalarKinds == {"Random", "Poly", "Constant", "Step", "Exp", "Sigmoid"}
SubFields == {"steps", "scales", "seq_scales", "gamma", "step", "scale"}
Needed(kind) ==
    CASE kind = "Step" -> {"step", "scale"}
      [] kind = "Exp" -> {"gamma"}
      [] kind = "Sigmoid" -> {"gamma", "step"}
      [] OTHER -> {}

\* the records that differ from raw in policy sub-fields that its kind does
\* not need: arrays absent, given, and of unequal lengths among them
Variants(raw) ==
    {v \in {[raw EXCEPT !.step = step, !.scale = scale, !.gamma = gamma,
                        !.steps = steps, !.scales = scales, !.seq_scales = seq_scales] :
               step \in {DefaultStep, 2}, scale \in {DefaultScale, Tenth},
               gamma \in {DefaultGamma, Tenth},
               steps \in {None, Some(<<1>>), Some(<<1, 2>>)},
               scales \in {None, Some(<<Tenth>>)},
               seq_scales \in {None, Some(<<One>>)}} :
        \A f \in Needed(raw.policy) : v[f] = raw[f]}

\* the sub-field of a serialized record is absent or at its default
AtDefault(raw, f) ==
    CASE f \in {"steps", "scales", "seq_scales"} -> raw[f] = None
      [] f = "gamma" -> raw.gamma = One
      [] f = "step" -> raw.step = 1
      [] f = "scale" -> raw.scale = One

\* C25: the policy that net normalization produces depends only on the
\* policy kind and on the sub-fields that the kind needs (Step: step, scale;
\* Exp: gamma; Sigmoid: gamma, step; Random, Poly, Constant: none): two raw
\* records that agree on them and differ in the other sub-fields normalize
\* to the same policy, no sub-field makes normalization fail, and the
\* serialized policy has the unused sub-fields absent or at their defaults.
C25_PolicyDependsOnNeeded ==
    (op = "net" /\ Made(output) /\ input.policy \in ScalarKinds) =>
        /\ \A other \in Variants(input) :
              LET result == NetConfigTryFrom(other, overflow_checks)
              IN  /\ result.ok <=> output.ok
                  /\ output.ok => result.val.policy = output.val.policy
        /\ ((FlatGiven(input) \/ HwcGiven(input)) /\ NoCropOverflow(input)) => output.ok
        /\ output.ok =>
              /\ output.val.policy.kind = input.policy
              /\ \A f \in Needed(input.policy) : output.val.policy[f] = input[f]
        /\ (Made(back) /\ back.ok) =>
              /\ back.val.policy = input.policy
              /\ \A f \in SubFields \ Needed(input.policy) : AtDefault(back.val, f)

\* an Exp record with steps given and scales absent, which the steps kind
\* rejects, normalizes to Exp with its gamma and is serialized without steps
C25_Witness ==
    /\ op = "net"
    /\ pc = "back"
    /\ input.policy = "Exp"
    /\ input.gamma = Tenth
    /\ input.scale = Tenth
    /\ input.steps = Some(<<1>>)
    /\ input.scales = None
    /\ output.val.policy = PolicyExp(Tenth)
    /\ back.val.steps = None
    /\ back.val.scale = One

\* the arrays that are given beside steps are as long as steps
ArraysAsLongAsSteps(raw) ==
    /\ raw.scales.some => Len(raw.scales.v) = Len(raw.steps.v)
    /\ raw.seq_scales.some => Len(raw.seq_scales.v) = Len(raw.steps.v)

\* serializing the sgdr policy emits kind sgdr, and normalizing the
\* serialized record returns the same variant
SgdrKept ==
    /\ Made(back) => (back.ok /\ back.val.policy = "Sgdr")
    /\ Made(again) => (again.ok /\ again.val.policy = output.val.policy)

\* C26 as stated: with policy kind sgdr, normalization yields Sgdr exactly
\* when steps, scales and seq_scales are all absent, yields SgdrCustom
\* whenever steps is given, and fails when scales or seq_scales is given
\* without steps; serializing either variant emits kind sgdr and
\* re-normalizing returns the same variant.
C26_Original ==
    (op = "net" /\ Made(output) /\ input.policy = "Sgdr") =>
        /\ (output.ok /\ output.val.policy.kind = "Sgdr")
           <=> (IsNone(input.steps) /\ IsNone(input.scales) /\ IsNone(input.seq_scales))
        /\ IsSome(input.steps) => (output.ok /\ output.val.policy.kind = "SgdrCustom")
        /\ (IsNone(input.steps) /\ (IsSome(input.scales) \/ IsSome(input.seq_scales)))
           => ~output.ok
        /\ output.ok => SgdrKept

\* C26: with policy kind sgdr, normalization yields Sgdr exactly when steps,
\* scales and seq_scales are all absent; yields SgdrCustom when steps is
\* given and each of scales and seq_scales that is given is as long as
\* steps, and fails when one of them has another length; fails when scales
\* or seq_scales is given without steps; serializing either variant emits
\* kind sgdr and re-normalizing returns the same variant.
C26_Sgdr ==
    (op = "net" /\ Made(output) /\ input.policy = "Sgdr") =>
        /\ (output.ok /\ output.val.policy.kind = "Sgdr")
           <=> (IsNone(input.steps) /\ IsNone(input.scales) /\ IsNone(input.seq_scales))
        /\ (IsSome(input.steps) /\ ArraysAsLongAsSteps(input))
           => (output.ok /\ output.val.policy.kind = "SgdrCustom")
        /\ (IsSome(input.steps) /\ ~ArraysAsLongAsSteps(input)) => ~output.ok
        /\ (IsNone(input.steps) /\ (IsSome(input.scales) \/ IsSome(input.seq_scales)))
           => ~output.ok
        /\ output.ok => SgdrKept

\* steps given alone: SgdrCustom, serialized as sgdr and normalized to
\* SgdrCustom again
C26_Witness ==
    /\ op = "net"
    /\ pc = "again"
    /\ input.policy = "Sgdr"
    /\ input.steps = Some(<<1, 2>>)
    /\ input.scales = None
    /\ input.seq_scales = None
    /\ output.val.policy.kind = "SgdrCustom"
    /\ back.val.policy = "Sgdr"
    /\ again.val.policy.kind = "SgdrCustom"

\* C30: convolutional normalization accepts a deform mode other than None,
\* one of sway, rotate, stretch, stretch_sway set, only when size >= 3, as
\* its error message states: every record with a deform flag set and
\* size < 3 is rejected.
C30_DeformSize ==
    (op = "convolutional" /\ Made(output)) =>
        /\ (DeformFlagCount(input) >= 1 /\ input.size < 3) => ~output.ok
        /\ (output.ok /\ output.val.deform # "None") => output.val.size >= 3

\* C29: for every ConvolutionalConfig that normalization accepts and every
\* input shape with h >= 1 and w >= 1, output_shape is defined:
\* h + 2*padding >= size and w + 2*padding >= size, stride_x >= 1 and
\* stride_y >= 1, and the height and width it returns are >= 1.
C29_OutputShapeDefined ==
    (op = "conv_normalized_shape" /\ Made(output) /\ output.ok
     /\ input.shape[1] >= 1 /\ input.shape[2] >= 1) =>
        LET conv == output.val
        IN  /\ input.shape[1] + 2 * conv.padding >= conv.size
            /\ input.shape[2] + 2 * conv.padding >= conv.size
            /\ conv.stride_x >= 1
            /\ conv.stride_y >= 1
            /\ Made(back) =>
                  /\ back.ok
                  /\ back.val[1] >= 1
                  /\ back.val[2] >= 1

====
